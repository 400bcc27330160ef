---------------------------- MODULE PreviewProofs ----------------------------
(* What is proved of the previews: that the tags they show are what was asked *)
(* for, that the scanner renders what a pattern means, and that every name is *)
(* safe. Loops over texts and lists are reasoned about as runs: functions     *)
(* from the number of items read to what was made of them.                    *)
EXTENDS RenamerTags, RenamerPattern, SequenceTheorems, FiniteSetTheorems,
        WellFoundedInduction, NaturalsInduction, TLAPS

(***************************************************************************)
(* Part 1: loops.                                                          *)
(***************************************************************************)
Less == {r \in Nat \X Nat : r[1] < r[2]}

LEMMA LeastOf ==
    ASSUME NEW T, T \subseteq Nat, T # {}
    PROVE  \E m \in T : \A j \in T : m <= j
  <1>1. IsWellFoundedOn(Less, Nat)
    BY NatLessThanWellFounded DEF OpToRel, Less
  <1>2. PICK m \in T : \A j \in T : ~(<<j, m>> \in Less)
    BY <1>1, WFMin
  <1>3. ASSUME NEW j \in T PROVE m <= j
    <2>1. m \in Nat /\ j \in Nat /\ ~(j < m)
      BY <1>2 DEF Less
    <2> QED BY <2>1
  <1> QED BY <1>3

(* Induction over the steps of a loop, for a set of steps.                 *)
LEMMA Induction ==
    ASSUME NEW n \in Nat, NEW G, 0 \in G, \A i \in 1 .. n : i - 1 \in G => i \in G
    PROVE  \A i \in 0 .. n : i \in G
  <1> DEFINE T == (0 .. n) \ G
  <1>1. SUFFICES ASSUME T # {} PROVE FALSE
    OBVIOUS
  <1>2. PICK m \in T : \A j \in T : m <= j
    <2>1. T \subseteq Nat
      OBVIOUS
    <2> HIDE DEF T
    <2> QED BY <1>1, <2>1, LeastOf
  <1>3. m \in 1 .. n /\ m - 1 \in 0 .. n /\ m - 1 \notin T
    BY <1>2
  <1> QED BY <1>2, <1>3

(* A function that goes through the steps of a loop exists.                *)
Runs(f, n, start, step) ==
    f[0] = start /\ \A i \in 1 .. n : f[i] = step[<<i, f[i - 1]>>]

LEMMA LoopRuns ==
    ASSUME NEW S, NEW n \in Nat, NEW start \in S, NEW step \in [(1 .. n) \X S -> S]
    PROVE  \E f \in [0 .. n -> S] : Runs(f, n, start, step)
  <1> DEFINE G == {m \in 0 .. n : \E f \in [0 .. m -> S] : Runs(f, m, start, step)}
  <1>1. 0 \in G
    <2>1. Runs([i \in 0 .. 0 |-> start], 0, start, step)
      BY DEF Runs
    <2> QED BY <2>1
  <1>2. ASSUME NEW m \in 1 .. n, m - 1 \in G PROVE m \in G
    <2>1. PICK f \in [0 .. m - 1 -> S] : Runs(f, m - 1, start, step)
      BY <1>2
    <2> DEFINE v == step[<<m, f[m - 1]>>]
               g == [i \in 0 .. m |-> IF i = m THEN v ELSE f[i]]
    <2>2. v \in S
      <3>1. f[m - 1] \in S
        BY <1>2, <2>1
      <3> QED BY <3>1
    <2>4. g[m] = v /\ \A i \in 0 .. m - 1 : g[i] = f[i]
      OBVIOUS
    <2>5. g \in [0 .. m -> S]
      BY <2>1, <2>2
    <2>6. Runs(g, m, start, step)
      <3> HIDE DEF g, v
      <3>1. g[0] = start
        BY <2>1, <2>4 DEF Runs
      <3>2. ASSUME NEW i \in 1 .. m PROVE g[i] = step[<<i, g[i - 1]>>]
        <4>1. i - 1 \in 0 .. m - 1 /\ g[i - 1] = f[i - 1]
          BY <2>4
        <4>2. CASE i = m
          BY <4>1, <4>2, <2>4 DEF v
        <4>3. CASE i # m
          BY <4>1, <4>3, <2>1, <2>4 DEF Runs
        <4> QED BY <4>2, <4>3
      <3> QED BY <3>1, <3>2 DEF Runs
    <2> QED BY <2>5, <2>6
  <1> HIDE DEF G
  <1>3. n \in G
    BY <1>1, <1>2, Induction
  <1> QED BY <1>3 DEF G

(* Every function that does is one of states.                              *)
LEMMA RunsAreTyped ==
    ASSUME NEW S, NEW n \in Nat, NEW c, c[0] \in S, DOMAIN c = 0 .. n,
           c = [i \in 0 .. n |-> c[i]],
           \A i \in 1 .. n : c[i - 1] \in S => c[i] \in S
    PROVE  c \in [0 .. n -> S]
  <1> DEFINE G == {i \in 0 .. n : c[i] \in S}
  <1>1. 0 \in G /\ \A i \in 1 .. n : i - 1 \in G => i \in G
    OBVIOUS
  <1> HIDE DEF G
  <1>2. \A i \in 0 .. n : i \in G
    BY <1>1, Induction
  <1> QED BY <1>2 DEF G

-----------------------------------------------------------------------------
(* The loops of the tags, step by step.                                    *)

WithoutIs(f, array, others) ==
    f = [i \in 0 .. Len(array) |->
           IF i = 0 THEN << >> ELSE IF array[i] \in others THEN f[i - 1] ELSE Append(f[i - 1], array[i])]

WithoutRun(array, others) == CHOOSE f : WithoutIs(f, array, others)

LEMMA WithoutRuns ==
    ASSUME NEW T, NEW array \in Seq(T), NEW others
    PROVE  /\ WithoutRun(array, others) \in [0 .. Len(array) -> Seq(T)]
           /\ WithoutRun(array, others)[0] = << >>
           /\ \A i \in 1 .. Len(array) :
                WithoutRun(array, others)[i] = IF array[i] \in others THEN WithoutRun(array, others)[i - 1] ELSE Append(WithoutRun(array, others)[i - 1], array[i])
           /\ Without(array, others) = WithoutRun(array, others)[Len(array)]
  <1> DEFINE n == Len(array)
             step == [p \in (1 .. n) \X Seq(T) |-> IF array[p[1]] \in others THEN p[2] ELSE Append(p[2], array[p[1]])]
             c == WithoutRun(array, others)
  <1>1. /\ n \in Nat /\ << >> \in Seq(T)
        /\ \A i \in 1 .. n : i \in 0 .. n /\ i - 1 \in 0 .. n /\ i # 0
    OBVIOUS
  <1>2. \A i \in 1 .. n, s \in Seq(T) : (IF array[i] \in others THEN s ELSE Append(s, array[i])) \in Seq(T)
    OBVIOUS
  <1>3. Without(array, others) = c[n]
    BY DEF Without, Loop, WithoutIs, WithoutRun
  <1>4. \E f : WithoutIs(f, array, others)
    <2>1. step \in [(1 .. n) \X Seq(T) -> Seq(T)]
      BY <1>2
    <2>2. \A i \in 1 .. n, s \in Seq(T) : step[<<i, s>>] = (IF array[i] \in others THEN s ELSE Append(s, array[i]))
      OBVIOUS
    <2> HIDE DEF step
    <2>3. PICK f \in [0 .. n -> Seq(T)] : Runs(f, n, << >>, step)
      BY <1>1, <2>1, LoopRuns
    <2>4. f[0] = << >> /\ \A i \in 1 .. n : f[i] = (IF array[i] \in others THEN f[i - 1] ELSE Append(f[i - 1], array[i]))
      <3>1. \A i \in 1 .. n : f[i - 1] \in Seq(T)
        <4> HIDE DEF n
        <4> QED BY <1>1
      <3> QED BY <2>2, <2>3, <3>1 DEF Runs
    <2>5. WithoutIs([i \in 0 .. n |-> f[i]], array, others)
      <3>1. \A i \in 0 .. n : i # 0 => i \in 1 .. n
        BY <1>1
      <3> QED BY <1>1, <2>4, <3>1 DEF WithoutIs
    <2> QED BY <2>5
  <1>5. WithoutIs(c, array, others)
    BY <1>4 DEF WithoutRun
  <1> HIDE DEF c
  <1>6. /\ DOMAIN c = 0 .. n /\ c = [i \in 0 .. n |-> c[i]] /\ c[0] = << >>
        /\ \A i \in 1 .. n : c[i] = (IF array[i] \in others THEN c[i - 1] ELSE Append(c[i - 1], array[i]))
    <2>1. \A i \in 0 .. n : c[i] = IF i = 0 THEN << >> ELSE (IF array[i] \in others THEN c[i - 1] ELSE Append(c[i - 1], array[i]))
      BY <1>5 DEF WithoutIs
    <2>2. DOMAIN c = 0 .. n /\ c = [i \in 0 .. n |-> c[i]]
      BY <1>5 DEF WithoutIs
    <2> HIDE DEF n
    <2>3. 0 \in 0 .. n
      BY <1>1
    <2> QED BY <1>1, <2>1, <2>2, <2>3
  <1>7. c \in [0 .. n -> Seq(T)]
    <2> HIDE DEF n
    <2>1. \A i \in 1 .. n : c[i - 1] \in Seq(T) => c[i] \in Seq(T)
      BY <1>2, <1>6
    <2> QED BY <1>1, <1>6, <2>1, RunsAreTyped
  <1> QED BY <1>3, <1>6, <1>7 DEF c

AddTagsIs(f, array, tags) ==
    f = [i \in 0 .. Len(tags) |->
           IF i = 0 THEN array ELSE AddTag(f[i - 1], tags[i])]

AddTagsRun(array, tags) == CHOOSE f : AddTagsIs(f, array, tags)

LEMMA AddTagsRuns ==
    ASSUME NEW T, NEW array \in Seq(T), NEW tags \in Seq(T)
    PROVE  /\ AddTagsRun(array, tags) \in [0 .. Len(tags) -> Seq(T)]
           /\ AddTagsRun(array, tags)[0] = array
           /\ \A i \in 1 .. Len(tags) :
                AddTagsRun(array, tags)[i] = AddTag(AddTagsRun(array, tags)[i - 1], tags[i])
           /\ AddTags(array, tags) = AddTagsRun(array, tags)[Len(tags)]
  <1> DEFINE n == Len(tags)
             step == [p \in (1 .. n) \X Seq(T) |-> AddTag(p[2], tags[p[1]])]
             c == AddTagsRun(array, tags)
  <1>1. /\ n \in Nat /\ array \in Seq(T)
        /\ \A i \in 1 .. n : i \in 0 .. n /\ i - 1 \in 0 .. n /\ i # 0
    OBVIOUS
  <1>2. \A i \in 1 .. n, s \in Seq(T) : (AddTag(s, tags[i])) \in Seq(T)
    BY DEF AddTag
  <1>3. AddTags(array, tags) = c[n]
    BY DEF AddTags, Loop, AddTagsIs, AddTagsRun
  <1>4. \E f : AddTagsIs(f, array, tags)
    <2>1. step \in [(1 .. n) \X Seq(T) -> Seq(T)]
      BY <1>2
    <2>2. \A i \in 1 .. n, s \in Seq(T) : step[<<i, s>>] = (AddTag(s, tags[i]))
      OBVIOUS
    <2> HIDE DEF step
    <2>3. PICK f \in [0 .. n -> Seq(T)] : Runs(f, n, array, step)
      BY <1>1, <2>1, LoopRuns
    <2>4. f[0] = array /\ \A i \in 1 .. n : f[i] = (AddTag(f[i - 1], tags[i]))
      <3>1. \A i \in 1 .. n : f[i - 1] \in Seq(T)
        <4> HIDE DEF n
        <4> QED BY <1>1
      <3> QED BY <2>2, <2>3, <3>1 DEF Runs
    <2>5. AddTagsIs([i \in 0 .. n |-> f[i]], array, tags)
      <3>1. \A i \in 0 .. n : i # 0 => i \in 1 .. n
        BY <1>1
      <3> QED BY <1>1, <2>4, <3>1 DEF AddTagsIs
    <2> QED BY <2>5
  <1>5. AddTagsIs(c, array, tags)
    BY <1>4 DEF AddTagsRun
  <1> HIDE DEF c
  <1>6. /\ DOMAIN c = 0 .. n /\ c = [i \in 0 .. n |-> c[i]] /\ c[0] = array
        /\ \A i \in 1 .. n : c[i] = (AddTag(c[i - 1], tags[i]))
    <2>1. \A i \in 0 .. n : c[i] = IF i = 0 THEN array ELSE (AddTag(c[i - 1], tags[i]))
      BY <1>5 DEF AddTagsIs
    <2>2. DOMAIN c = 0 .. n /\ c = [i \in 0 .. n |-> c[i]]
      BY <1>5 DEF AddTagsIs
    <2> HIDE DEF n
    <2>3. 0 \in 0 .. n
      BY <1>1
    <2> QED BY <1>1, <2>1, <2>2, <2>3
  <1>7. c \in [0 .. n -> Seq(T)]
    <2> HIDE DEF n
    <2>1. \A i \in 1 .. n : c[i - 1] \in Seq(T) => c[i] \in Seq(T)
      BY <1>2, <1>6
    <2> QED BY <1>1, <1>6, <2>1, RunsAreTyped
  <1> QED BY <1>3, <1>6, <1>7 DEF c

AppendAllIs(f, list, more) ==
    f = [i \in 0 .. Len(more) |->
           IF i = 0 THEN list ELSE TagListAppend(f[i - 1], more[i])]

AppendAllRun(list, more) == CHOOSE f : AppendAllIs(f, list, more)

LEMMA AppendAllRuns ==
    ASSUME NEW T, NEW list \in Seq(T), NEW more \in Seq(T)
    PROVE  /\ AppendAllRun(list, more) \in [0 .. Len(more) -> Seq(T)]
           /\ AppendAllRun(list, more)[0] = list
           /\ \A i \in 1 .. Len(more) :
                AppendAllRun(list, more)[i] = TagListAppend(AppendAllRun(list, more)[i - 1], more[i])
           /\ AppendAll(list, more) = AppendAllRun(list, more)[Len(more)]
  <1> DEFINE n == Len(more)
             step == [p \in (1 .. n) \X Seq(T) |-> TagListAppend(p[2], more[p[1]])]
             c == AppendAllRun(list, more)
  <1>1. /\ n \in Nat /\ list \in Seq(T)
        /\ \A i \in 1 .. n : i \in 0 .. n /\ i - 1 \in 0 .. n /\ i # 0
    OBVIOUS
  <1>2. \A i \in 1 .. n, s \in Seq(T) : (TagListAppend(s, more[i])) \in Seq(T)
    BY LimitAssumption DEF TagListAppend
  <1>3. AppendAll(list, more) = c[n]
    BY DEF AppendAll, Loop, AppendAllIs, AppendAllRun
  <1>4. \E f : AppendAllIs(f, list, more)
    <2>1. step \in [(1 .. n) \X Seq(T) -> Seq(T)]
      BY <1>2
    <2>2. \A i \in 1 .. n, s \in Seq(T) : step[<<i, s>>] = (TagListAppend(s, more[i]))
      OBVIOUS
    <2> HIDE DEF step
    <2>3. PICK f \in [0 .. n -> Seq(T)] : Runs(f, n, list, step)
      BY <1>1, <2>1, LoopRuns
    <2>4. f[0] = list /\ \A i \in 1 .. n : f[i] = (TagListAppend(f[i - 1], more[i]))
      <3>1. \A i \in 1 .. n : f[i - 1] \in Seq(T)
        <4> HIDE DEF n
        <4> QED BY <1>1
      <3> QED BY <2>2, <2>3, <3>1 DEF Runs
    <2>5. AppendAllIs([i \in 0 .. n |-> f[i]], list, more)
      <3>1. \A i \in 0 .. n : i # 0 => i \in 1 .. n
        BY <1>1
      <3> QED BY <1>1, <2>4, <3>1 DEF AppendAllIs
    <2> QED BY <2>5
  <1>5. AppendAllIs(c, list, more)
    BY <1>4 DEF AppendAllRun
  <1> HIDE DEF c
  <1>6. /\ DOMAIN c = 0 .. n /\ c = [i \in 0 .. n |-> c[i]] /\ c[0] = list
        /\ \A i \in 1 .. n : c[i] = (TagListAppend(c[i - 1], more[i]))
    <2>1. \A i \in 0 .. n : c[i] = IF i = 0 THEN list ELSE (TagListAppend(c[i - 1], more[i]))
      BY <1>5 DEF AppendAllIs
    <2>2. DOMAIN c = 0 .. n /\ c = [i \in 0 .. n |-> c[i]]
      BY <1>5 DEF AppendAllIs
    <2> HIDE DEF n
    <2>3. 0 \in 0 .. n
      BY <1>1
    <2> QED BY <1>1, <2>1, <2>2, <2>3
  <1>7. c \in [0 .. n -> Seq(T)]
    <2> HIDE DEF n
    <2>1. \A i \in 1 .. n : c[i - 1] \in Seq(T) => c[i] \in Seq(T)
      BY <1>2, <1>6
    <2> QED BY <1>1, <1>6, <2>1, RunsAreTyped
  <1> QED BY <1>3, <1>6, <1>7 DEF c

(* One character of the loop of Squeeze.                                   *)
SqueezeChar(out, c, marks, size) ==
    IF \/ c \in marks /\ out # << >> /\ Last(out) \in marks
       \/ Len(out) + 1 >= size
    THEN out
    ELSE Append(out, c)

SqueezeIs(f, text, marks, size) ==
    f = [i \in 0 .. Len(text) |->
           IF i = 0 THEN << >> ELSE SqueezeChar(f[i - 1], text[i], marks, size)]

SqueezeRun(text, marks, size) == CHOOSE f : SqueezeIs(f, text, marks, size)

LEMMA SqueezeRuns ==
    ASSUME NEW T, NEW text \in Seq(T), NEW marks, NEW size
    PROVE  /\ SqueezeRun(text, marks, size) \in [0 .. Len(text) -> Seq(T)]
           /\ SqueezeRun(text, marks, size)[0] = << >>
           /\ \A i \in 1 .. Len(text) :
                SqueezeRun(text, marks, size)[i] = SqueezeChar(SqueezeRun(text, marks, size)[i - 1], text[i], marks, size)
           /\ Squeeze(text, marks, size) = SqueezeRun(text, marks, size)[Len(text)]
  <1> DEFINE n == Len(text)
             step == [p \in (1 .. n) \X Seq(T) |-> SqueezeChar(p[2], text[p[1]], marks, size)]
             c == SqueezeRun(text, marks, size)
  <1>1. /\ n \in Nat /\ << >> \in Seq(T)
        /\ \A i \in 1 .. n : i \in 0 .. n /\ i - 1 \in 0 .. n /\ i # 0
    OBVIOUS
  <1>2. \A i \in 1 .. n, s \in Seq(T) : (SqueezeChar(s, text[i], marks, size)) \in Seq(T)
    BY DEF SqueezeChar
  <1>3. Squeeze(text, marks, size) = c[n]
    BY DEF Squeeze, Loop, SqueezeIs, SqueezeRun, SqueezeChar
  <1>4. \E f : SqueezeIs(f, text, marks, size)
    <2>1. step \in [(1 .. n) \X Seq(T) -> Seq(T)]
      BY <1>2
    <2>2. \A i \in 1 .. n, s \in Seq(T) : step[<<i, s>>] = (SqueezeChar(s, text[i], marks, size))
      OBVIOUS
    <2> HIDE DEF step
    <2>3. PICK f \in [0 .. n -> Seq(T)] : Runs(f, n, << >>, step)
      BY <1>1, <2>1, LoopRuns
    <2>4. f[0] = << >> /\ \A i \in 1 .. n : f[i] = (SqueezeChar(f[i - 1], text[i], marks, size))
      <3>1. \A i \in 1 .. n : f[i - 1] \in Seq(T)
        <4> HIDE DEF n
        <4> QED BY <1>1
      <3> QED BY <2>2, <2>3, <3>1 DEF Runs
    <2>5. SqueezeIs([i \in 0 .. n |-> f[i]], text, marks, size)
      <3>1. \A i \in 0 .. n : i # 0 => i \in 1 .. n
        BY <1>1
      <3> QED BY <1>1, <2>4, <3>1 DEF SqueezeIs
    <2> QED BY <2>5
  <1>5. SqueezeIs(c, text, marks, size)
    BY <1>4 DEF SqueezeRun
  <1> HIDE DEF c
  <1>6. /\ DOMAIN c = 0 .. n /\ c = [i \in 0 .. n |-> c[i]] /\ c[0] = << >>
        /\ \A i \in 1 .. n : c[i] = (SqueezeChar(c[i - 1], text[i], marks, size))
    <2>1. \A i \in 0 .. n : c[i] = IF i = 0 THEN << >> ELSE (SqueezeChar(c[i - 1], text[i], marks, size))
      BY <1>5 DEF SqueezeIs
    <2>2. DOMAIN c = 0 .. n /\ c = [i \in 0 .. n |-> c[i]]
      BY <1>5 DEF SqueezeIs
    <2> HIDE DEF n
    <2>3. 0 \in 0 .. n
      BY <1>1
    <2> QED BY <1>1, <2>1, <2>2, <2>3
  <1>7. c \in [0 .. n -> Seq(T)]
    <2> HIDE DEF n
    <2>1. \A i \in 1 .. n : c[i - 1] \in Seq(T) => c[i] \in Seq(T)
      BY <1>2, <1>6
    <2> QED BY <1>1, <1>6, <2>1, RunsAreTyped
  <1> QED BY <1>3, <1>6, <1>7 DEF c

(* One key of the metadata of a file.                                      *)
KeyTagsOf(out, node, hidden) ==
    IF node.key \in Whitelist
    THEN AppendAll(out, Without(Parse(node.tags), hidden)) ELSE out

KeyTagsIs(f, file, hidden) ==
    f = [i \in 0 .. Len(Metadata[file]) |->
           IF i = 0 THEN << >> ELSE KeyTagsOf(f[i - 1], Metadata[file][i], hidden)]

KeyTagsRun(file, hidden) == CHOOSE f : KeyTagsIs(f, file, hidden)

LEMMA KeyTagsRuns ==
    ASSUME NEW T, NEW file \in Files,
           Metadata[file] \in Seq([key : STRING, tags : Csvs]), NEW hidden,
           \A i \in DOMAIN Metadata[file], s \in Seq(T) : KeyTagsOf(s,
           Metadata[file][i], hidden) \in Seq(T)
    PROVE  /\ KeyTagsRun(file, hidden) \in [0 .. Len(Metadata[file]) -> Seq(T)]
           /\ KeyTagsRun(file, hidden)[0] = << >>
           /\ \A i \in 1 .. Len(Metadata[file]) :
                KeyTagsRun(file, hidden)[i] = KeyTagsOf(KeyTagsRun(file, hidden)[i - 1], Metadata[file][i], hidden)
           /\ KeyTags(file, hidden) = KeyTagsRun(file, hidden)[Len(Metadata[file])]
  <1> DEFINE n == Len(Metadata[file])
             step == [p \in (1 .. n) \X Seq(T) |-> KeyTagsOf(p[2], Metadata[file][p[1]], hidden)]
             c == KeyTagsRun(file, hidden)
  <1>1. /\ n \in Nat /\ << >> \in Seq(T)
        /\ \A i \in 1 .. n : i \in 0 .. n /\ i - 1 \in 0 .. n /\ i # 0
    OBVIOUS
  <1>2. \A i \in 1 .. n, s \in Seq(T) : (KeyTagsOf(s, Metadata[file][i], hidden)) \in Seq(T)
    OBVIOUS
  <1>3. KeyTags(file, hidden) = c[n]
    BY DEF KeyTags, Loop, KeyTagsIs, KeyTagsRun, KeyTagsOf
  <1>4. \E f : KeyTagsIs(f, file, hidden)
    <2>1. step \in [(1 .. n) \X Seq(T) -> Seq(T)]
      BY <1>2
    <2>2. \A i \in 1 .. n, s \in Seq(T) : step[<<i, s>>] = (KeyTagsOf(s, Metadata[file][i], hidden))
      OBVIOUS
    <2> HIDE DEF step
    <2>3. PICK f \in [0 .. n -> Seq(T)] : Runs(f, n, << >>, step)
      BY <1>1, <2>1, LoopRuns
    <2>4. f[0] = << >> /\ \A i \in 1 .. n : f[i] = (KeyTagsOf(f[i - 1], Metadata[file][i], hidden))
      <3>1. \A i \in 1 .. n : f[i - 1] \in Seq(T)
        <4> HIDE DEF n
        <4> QED BY <1>1
      <3> QED BY <2>2, <2>3, <3>1 DEF Runs
    <2>5. KeyTagsIs([i \in 0 .. n |-> f[i]], file, hidden)
      <3>1. \A i \in 0 .. n : i # 0 => i \in 1 .. n
        BY <1>1
      <3> QED BY <1>1, <2>4, <3>1 DEF KeyTagsIs
    <2> QED BY <2>5
  <1>5. KeyTagsIs(c, file, hidden)
    BY <1>4 DEF KeyTagsRun
  <1> HIDE DEF c
  <1>6. /\ DOMAIN c = 0 .. n /\ c = [i \in 0 .. n |-> c[i]] /\ c[0] = << >>
        /\ \A i \in 1 .. n : c[i] = (KeyTagsOf(c[i - 1], Metadata[file][i], hidden))
    <2>1. \A i \in 0 .. n : c[i] = IF i = 0 THEN << >> ELSE (KeyTagsOf(c[i - 1], Metadata[file][i], hidden))
      BY <1>5 DEF KeyTagsIs
    <2>2. DOMAIN c = 0 .. n /\ c = [i \in 0 .. n |-> c[i]]
      BY <1>5 DEF KeyTagsIs
    <2> HIDE DEF n
    <2>3. 0 \in 0 .. n
      BY <1>1
    <2> QED BY <1>1, <2>1, <2>2, <2>3
  <1>7. c \in [0 .. n -> Seq(T)]
    <2> HIDE DEF n
    <2>1. \A i \in 1 .. n : c[i - 1] \in Seq(T) => c[i] \in Seq(T)
      BY <1>2, <1>6
    <2> QED BY <1>1, <1>6, <2>1, RunsAreTyped
  <1> QED BY <1>3, <1>6, <1>7 DEF c

(* One entry of a map.                                                     *)
ApplyMapOf(entries, item, batch) ==
    IF Relevant(item, batch) THEN ApplyMapEntry(entries, item) ELSE entries

ApplyMapIs(f, entries, map, batch) ==
    f = [i \in 0 .. Len(map) |->
           IF i = 0 THEN entries ELSE ApplyMapOf(f[i - 1], map[i], batch)]

ApplyMapRun(entries, map, batch) == CHOOSE f : ApplyMapIs(f, entries, map, batch)

LEMMA ApplyMapRuns ==
    ASSUME NEW I, NEW map \in Seq(I), NEW S, NEW entries \in S, NEW batch,
           \A i \in DOMAIN map, s \in S : ApplyMapOf(s, map[i], batch) \in S
    PROVE  /\ ApplyMapRun(entries, map, batch) \in [0 .. Len(map) -> S]
           /\ ApplyMapRun(entries, map, batch)[0] = entries
           /\ \A i \in 1 .. Len(map) :
                ApplyMapRun(entries, map, batch)[i] = ApplyMapOf(ApplyMapRun(entries, map, batch)[i - 1], map[i], batch)
           /\ ApplyMap(entries, map, batch) = ApplyMapRun(entries, map, batch)[Len(map)]
  <1> DEFINE n == Len(map)
             step == [p \in (1 .. n) \X S |-> ApplyMapOf(p[2], map[p[1]], batch)]
             c == ApplyMapRun(entries, map, batch)
  <1>1. /\ n \in Nat /\ entries \in S
        /\ \A i \in 1 .. n : i \in 0 .. n /\ i - 1 \in 0 .. n /\ i # 0
    OBVIOUS
  <1>2. \A i \in 1 .. n, s \in S : (ApplyMapOf(s, map[i], batch)) \in S
    OBVIOUS
  <1>3. ApplyMap(entries, map, batch) = c[n]
    BY DEF ApplyMap, Loop, ApplyMapIs, ApplyMapRun, ApplyMapOf
  <1>4. \E f : ApplyMapIs(f, entries, map, batch)
    <2>1. step \in [(1 .. n) \X S -> S]
      BY <1>2
    <2>2. \A i \in 1 .. n, s \in S : step[<<i, s>>] = (ApplyMapOf(s, map[i], batch))
      OBVIOUS
    <2> HIDE DEF step
    <2>3. PICK f \in [0 .. n -> S] : Runs(f, n, entries, step)
      BY <1>1, <2>1, LoopRuns
    <2>4. f[0] = entries /\ \A i \in 1 .. n : f[i] = (ApplyMapOf(f[i - 1], map[i], batch))
      <3>1. \A i \in 1 .. n : f[i - 1] \in S
        <4> HIDE DEF n
        <4> QED BY <1>1
      <3> QED BY <2>2, <2>3, <3>1 DEF Runs
    <2>5. ApplyMapIs([i \in 0 .. n |-> f[i]], entries, map, batch)
      <3>1. \A i \in 0 .. n : i # 0 => i \in 1 .. n
        BY <1>1
      <3> QED BY <1>1, <2>4, <3>1 DEF ApplyMapIs
    <2> QED BY <2>5
  <1>5. ApplyMapIs(c, entries, map, batch)
    BY <1>4 DEF ApplyMapRun
  <1> HIDE DEF c
  <1>6. /\ DOMAIN c = 0 .. n /\ c = [i \in 0 .. n |-> c[i]] /\ c[0] = entries
        /\ \A i \in 1 .. n : c[i] = (ApplyMapOf(c[i - 1], map[i], batch))
    <2>1. \A i \in 0 .. n : c[i] = IF i = 0 THEN entries ELSE (ApplyMapOf(c[i - 1], map[i], batch))
      BY <1>5 DEF ApplyMapIs
    <2>2. DOMAIN c = 0 .. n /\ c = [i \in 0 .. n |-> c[i]]
      BY <1>5 DEF ApplyMapIs
    <2> HIDE DEF n
    <2>3. 0 \in 0 .. n
      BY <1>1
    <2> QED BY <1>1, <2>1, <2>2, <2>3
  <1>7. c \in [0 .. n -> S]
    <2> HIDE DEF n
    <2>1. \A i \in 1 .. n : c[i - 1] \in S => c[i] \in S
      BY <1>2, <1>6
    <2> QED BY <1>1, <1>6, <2>1, RunsAreTyped
  <1> QED BY <1>3, <1>6, <1>7 DEF c

(***************************************************************************)
(* Part 2: texts.  What Squeeze and Trim leave has no two marks in a row,  *)
(* fits its buffer and neither begins nor ends with a mark; and they leave *)
(* such a text as it is, so that a tag that is read again is the same tag. *)
(***************************************************************************)
LEMMA MinIs ==
    ASSUME NEW T, T \subseteq Nat, T # {}
    PROVE  Min(T) \in T /\ \A j \in T : Min(T) <= j
  <1>1. PICK m \in T : \A j \in T : m <= j
    BY LeastOf
  <1> QED BY <1>1 DEF Min

LEMMA MaxIs ==
    ASSUME NEW n \in Nat, NEW T, T \subseteq 0 .. n, T # {}
    PROVE  Max(T) \in T /\ \A j \in T : j <= Max(T)
  <1> DEFINE U == {k \in 0 .. n : n - k \in T}
  <1>1. U \subseteq Nat /\ U # {}
    <2>1. PICK j \in T : TRUE
      OBVIOUS
    <2>2. n - j \in 0 .. n /\ n - (n - j) = j
      OBVIOUS
    <2>3. n - j \in U
      BY <2>2
    <2> QED BY <2>3
  <1> HIDE DEF U
  <1>2. PICK k \in U : \A j \in U : k <= j
    BY <1>1, LeastOf
  <1>3. k \in 0 .. n /\ n - k \in T
    BY DEF U
  <1>4. ASSUME NEW j \in T PROVE j <= n - k
    <2>1. j \in 0 .. n /\ n - j \in 0 .. n /\ n - (n - j) = j
      OBVIOUS
    <2>2. n - j \in U
      BY <2>1 DEF U
    <2>3. k <= n - j
      BY <1>2, <2>2
    <2> QED BY <1>3, <2>1, <2>3
  <1>5. \E m \in T : \A j \in T : m >= j
    <2>1. \A j \in T : n - k >= j
      BY <1>3, <1>4
    <2> QED BY <1>3, <2>1
  <1>6. Max(T) \in T /\ \A j \in T : Max(T) >= j
    BY <1>5 DEF Max
  <1>7. \A j \in T : j \in Int
    OBVIOUS
  <1> QED BY <1>6, <1>7

Tidy(text, marks) ==
    \A i \in 1 .. Len(text) - 1 : ~(text[i] \in marks /\ text[i + 1] \in marks)

Fits(text, size) == text = << >> \/ Len(text) + 1 <= size

Neat(text, marks) ==
    text = << >> \/ (text[1] \notin marks /\ text[Len(text)] \notin marks)

LEMMA SqueezeIsTidy ==
    ASSUME NEW T, NEW text \in Seq(T), NEW marks, NEW size \in Nat
    PROVE  /\ Squeeze(text, marks, size) \in Seq(T)
           /\ Tidy(Squeeze(text, marks, size), marks)
           /\ Fits(Squeeze(text, marks, size), size)
  <1> DEFINE n == Len(text)
             f == SqueezeRun(text, marks, size)
  <1>1. /\ f \in [0 .. n -> Seq(T)] /\ f[0] = << >>
        /\ \A i \in 1 .. n : f[i] = SqueezeChar(f[i - 1], text[i], marks, size)
        /\ Squeeze(text, marks, size) = f[n]
    BY SqueezeRuns
  <1> HIDE DEF f
  <1> DEFINE G == {i \in 0 .. n : Tidy(f[i], marks) /\ Fits(f[i], size)}
  <1>2. n \in Nat
    OBVIOUS
  <1> HIDE DEF n
  <1>3. 0 \in G
    <2>1. 0 \in 0 .. n
      BY <1>2
    <2> QED BY <1>1, <2>1 DEF Tidy, Fits
  <1>4. ASSUME NEW i \in 1 .. n, i - 1 \in G PROVE i \in G
    <2> DEFINE s == f[i - 1]
               c == text[i]
    <2>1. s \in Seq(T) /\ c \in T /\ i \in 0 .. n
      BY <1>1, <1>2 DEF n
    <2>2. f[i] = SqueezeChar(s, c, marks, size) /\ Tidy(s, marks) /\ Fits(s, size)
      BY <1>1, <1>4
    <2> HIDE DEF s, c
    <2>3. CASE f[i] = s
      BY <2>1, <2>2, <2>3
    <2>4. CASE f[i] # s
      <3>1. /\ f[i] = Append(s, c) /\ ~(Len(s) + 1 >= size)
            /\ ~(c \in marks /\ s # << >> /\ s[Len(s)] \in marks)
        BY <2>2, <2>4 DEF SqueezeChar, Last
      <3>2. Len(f[i]) = Len(s) + 1 /\ f[i][Len(s) + 1] = c /\ \A k \in 1 .. Len(s) : f[i][k] = s[k]
        BY <2>1, <3>1
      <3>3. Fits(f[i], size)
        BY <2>1, <3>1, <3>2 DEF Fits
      <3>4. ASSUME NEW k \in 1 .. Len(f[i]) - 1 PROVE ~(f[i][k] \in marks /\ f[i][k + 1] \in marks)
        <4>1. CASE k = Len(s)
          BY <2>1, <3>1, <3>2, <4>1
        <4>2. CASE k # Len(s)
          BY <2>1, <2>2, <3>2, <4>2 DEF Tidy
        <4> QED BY <4>1, <4>2
      <3> QED BY <2>1, <3>3, <3>4 DEF Tidy
    <2> QED BY <2>3, <2>4
  <1> HIDE DEF G
  <1>5. \A i \in 0 .. n : i \in G
    BY <1>2, <1>3, <1>4, Induction
  <1>6. n \in 0 .. n
    BY <1>2
  <1> QED BY <1>1, <1>5, <1>6 DEF G

LEMMA SqueezeSame ==
    ASSUME NEW T, NEW text \in Seq(T), NEW marks, NEW size \in Nat,
           Tidy(text, marks), Fits(text, size)
    PROVE  Squeeze(text, marks, size) = text
  <1> DEFINE n == Len(text)
             f == SqueezeRun(text, marks, size)
  <1>1. /\ f \in [0 .. n -> Seq(T)] /\ f[0] = << >>
        /\ \A i \in 1 .. n : f[i] = SqueezeChar(f[i - 1], text[i], marks, size)
        /\ Squeeze(text, marks, size) = f[n]
    BY SqueezeRuns
  <1> HIDE DEF f
  <1> DEFINE G == {i \in 0 .. n : Len(f[i]) = i /\ \A k \in 1 .. i : f[i][k] = text[k]}
  <1>2. n \in Nat
    OBVIOUS
  <1> HIDE DEF n
  <1>3. 0 \in G
    <2>1. 0 \in 0 .. n
      BY <1>2
    <2> QED BY <1>1, <2>1
  <1>4. ASSUME NEW i \in 1 .. n, i - 1 \in G PROVE i \in G
    <2> DEFINE s == f[i - 1]
               c == text[i]
    <2>1. s \in Seq(T) /\ c \in T /\ i \in 0 .. n
      BY <1>1, <1>2 DEF n
    <2>2. /\ f[i] = SqueezeChar(s, c, marks, size)
          /\ Len(s) = i - 1 /\ \A k \in 1 .. i - 1 : s[k] = text[k]
      BY <1>1, <1>4
    <2> HIDE DEF s
    <2>3. ~(Len(s) + 1 >= size)
      <3>1. n + 1 <= size
        BY <1>2 DEF Fits, n
      <3> QED BY <1>2, <2>2, <3>1
    <2>4. ~(c \in marks /\ s # << >> /\ Last(s) \in marks)
      <3>1. SUFFICES ASSUME s # << >> PROVE ~(c \in marks /\ Last(s) \in marks)
        OBVIOUS
      <3>2. i - 1 \in 1 .. n - 1 /\ i - 1 \in 1 .. i - 1
        BY <1>2, <2>1, <2>2, <3>1
      <3>3. Last(s) = text[i - 1]
        BY <2>2, <3>2 DEF Last
      <3>4. ~(text[i - 1] \in marks /\ text[(i - 1) + 1] \in marks)
        BY <3>2 DEF Tidy, n
      <3> QED BY <3>3, <3>4
    <2> HIDE DEF c
    <2>5. f[i] = Append(s, c)
      BY <2>2, <2>3, <2>4 DEF SqueezeChar
    <2>6. Len(f[i]) = i /\ f[i][i] = c /\ \A k \in 1 .. i - 1 : f[i][k] = s[k]
      BY <2>1, <2>2, <2>5
    <2> QED BY <2>1, <2>2, <2>6 DEF c
  <1> HIDE DEF G
  <1>5. \A i \in 0 .. n : i \in G
    BY <1>2, <1>3, <1>4, Induction
  <1>6. f[n] \in Seq(T) /\ Len(f[n]) = n /\ \A k \in 1 .. n : f[n][k] = text[k]
    BY <1>1, <1>2, <1>5 DEF G
  <1> QED BY <1>1, <1>6 DEF n

(* What is trimmed is a part of the text.                                  *)
LEMMA TrimIs ==
    ASSUME NEW T, NEW text \in Seq(T), NEW marks, NEW size \in Nat
    PROVE  /\ Trim(text, marks) \in Seq(T)
           /\ Neat(Trim(text, marks), marks)
           /\ Len(Trim(text, marks)) <= Len(text)
           /\ Tidy(text, marks) => Tidy(Trim(text, marks), marks)
           /\ Fits(text, size) => Fits(Trim(text, marks), size)
           /\ Neat(text, marks) => Trim(text, marks) = text
           /\ (\E i \in DOMAIN text : text[i] \notin marks) => Trim(text, marks) # << >>
  <1> DEFINE kept == {i \in DOMAIN text : text[i] \notin marks}
             s == Trim(text, marks)
  <1>1. DOMAIN text = 1 .. Len(text) /\ Len(text) \in Nat
    OBVIOUS
  <1>2. CASE kept = {}
    <2>1. s = << >>
      BY <1>2 DEF Trim
    <2>2. Neat(text, marks) => text = << >>
      <3>1. SUFFICES ASSUME Neat(text, marks), text # << >> PROVE FALSE
        OBVIOUS
      <3>2. 1 \in DOMAIN text
        BY <3>1
      <3> QED BY <1>2, <3>1, <3>2 DEF Neat
    <2>3. Len(s) = 0 /\ s \in Seq(T)
      BY <2>1
    <2>4. Tidy(s, marks) /\ Fits(s, size) /\ Neat(s, marks)
      BY <2>1 DEF Tidy, Fits, Neat
    <2> QED BY <1>1, <1>2, <2>1, <2>2, <2>3, <2>4
  <1>3. CASE kept # {}
    <2>1. s = SubSeq(text, Min(kept), Max(kept))
      BY <1>3 DEF Trim
    <2>2. kept \subseteq Nat /\ kept \subseteq 0 .. Len(text) /\ kept \subseteq 1 .. Len(text)
      BY <1>1
    <2>3. Min(kept) \in kept /\ \A j \in kept : Min(kept) <= j
      BY <1>3, <2>2, MinIs
    <2>4. Max(kept) \in kept /\ \A j \in kept : j <= Max(kept)
      BY <1>1, <1>3, <2>2, MaxIs
    <2> DEFINE a == Min(kept)
               b == Max(kept)
    <2>5. a \in 1 .. Len(text) /\ b \in 1 .. Len(text) /\ a <= b /\ text[a] \notin marks /\ text[b] \notin marks
      BY <2>2, <2>3, <2>4
    <2>6. Neat(text, marks) => a = 1 /\ b = Len(text)
      <3>1. SUFFICES ASSUME Neat(text, marks) PROVE a = 1 /\ b = Len(text)
        OBVIOUS
      <3>2. text # << >>
        BY <2>5
      <3>3. 1 \in DOMAIN text /\ Len(text) \in DOMAIN text
        BY <3>2
      <3>4. 1 \in kept /\ Len(text) \in kept
        BY <3>1, <3>2, <3>3 DEF Neat
      <3>5. a <= 1 /\ Len(text) <= b
        BY <2>3, <2>4, <3>4 DEF a, b
      <3>6. a \in Nat /\ b \in Nat /\ Len(text) \in Nat /\ 1 <= a /\ b <= Len(text)
        BY <1>1, <2>5
      <3> HIDE DEF a, b
      <3> QED BY <3>5, <3>6
    <2>7. s = SubSeq(text, a, b)
      BY <2>1
    <2> HIDE DEF a, b, s, kept
    <2>8. /\ s \in Seq(T) /\ Len(s) = b - a + 1
          /\ \A i \in 1 .. b - a + 1 : s[i] = text[a + i - 1]
      BY <2>5, <2>7
    <2>9. s # << >> /\ Len(s) <= Len(text) /\ Len(s) \in Nat
      BY <2>5, <2>8
    <2>10. Neat(s, marks)
      <3>1. s[1] = text[a] /\ s[Len(s)] = text[b]
        BY <2>5, <2>8
      <3> QED BY <2>5, <3>1 DEF Neat
    <2>11. Tidy(text, marks) => Tidy(s, marks)
      <3>1. SUFFICES ASSUME Tidy(text, marks), NEW i \in 1 .. Len(s) - 1
                     PROVE  ~(s[i] \in marks /\ s[i + 1] \in marks)
        BY DEF Tidy
      <3>2. a + i - 1 \in 1 .. Len(text) - 1 /\ s[i] = text[a + i - 1] /\ s[i + 1] = text[(a + i - 1) + 1]
        BY <2>5, <2>8
      <3> QED BY <3>1, <3>2 DEF Tidy
    <2>12. Fits(text, size) => Fits(s, size)
      BY <1>1, <2>5, <2>9 DEF Fits
    <2>13. Neat(text, marks) => s = text
      <3>1. SUFFICES ASSUME a = 1, b = Len(text) PROVE s = text
        BY <2>6
      <3>2. Len(s) = Len(text) /\ \A i \in 1 .. Len(text) : s[i] = text[i]
        BY <1>1, <2>8, <3>1
      <3> QED BY <2>8, <3>2
    <2> QED BY <2>8, <2>9, <2>10, <2>11, <2>12, <2>13 DEF s
  <1> QED BY <1>2, <1>3

(* A normalized text is what normalizing leaves alone.                     *)
Spelling == Range(Lower) \cup {"-"}

IsNormal(text, size) ==
    /\ text \in Seq(Spelling)
    /\ Tidy(text, {"-"}) /\ Fits(text, size) /\ Neat(text, {"-"})

LEMMA SpellingsStay ==
    ASSUME NEW c \in Spelling
    PROVE  TagChar(c) = c
  <1>1. CASE c = "-"
    <2>1. "-" \notin DOMAIN Lower
      BY LowerAssumption DEF Marks
    <2> QED BY <1>1, <2>1 DEF TagChar, Alphanumeric
  <1>2. CASE c \in Range(Lower)
    <2>1. PICK d \in DOMAIN Lower : c = Lower[d]
      BY <1>2 DEF Range
    <2>2. c \in DOMAIN Lower /\ Lower[c] = c
      BY <2>1, LowerAssumption
    <2> QED BY <2>2 DEF TagChar, Alphanumeric
  <1> QED BY <1>1, <1>2 DEF Spelling

LEMMA NormalizedIsNormal ==
    ASSUME NEW T, NEW text \in Seq(T), NEW size \in Nat
    PROVE  IsNormal(NormalizeTag(text, size), size)
  <1> DEFINE m == Mapped(TagChar, text)
             s == Squeeze(m, {"-"}, size)
  <1>1. \A c : TagChar(c) \in Spelling
    BY DEF TagChar, Alphanumeric, Spelling, Range
  <1>2. m \in Seq(Spelling)
    BY <1>1 DEF Mapped
  <1>3. NormalizeTag(text, size) = Trim(s, {"-"})
    BY DEF NormalizeTag, SqueezeThenTrim
  <1> HIDE DEF m
  <1>4. s \in Seq(Spelling) /\ Tidy(s, {"-"}) /\ Fits(s, size)
    BY <1>2, SqueezeIsTidy
  <1> HIDE DEF s
  <1> QED BY <1>3, <1>4, TrimIs DEF IsNormal

LEMMA NormalStays ==
    ASSUME NEW text, NEW size \in Nat, IsNormal(text, size)
    PROVE  NormalizeTag(text, size) = text
  <1> DEFINE m == Mapped(TagChar, text)
  <1>1. text \in Seq(Spelling)
    BY DEF IsNormal
  <1>2. m = text
    <2>1. \A i \in DOMAIN text : text[i] \in Spelling
      BY <1>1
    <2>2. \A i \in DOMAIN text : TagChar(text[i]) = text[i]
      BY <2>1, SpellingsStay
    <2>3. m = [i \in DOMAIN text |-> text[i]]
      BY <2>2 DEF Mapped
    <2> QED BY <1>1, <2>3
  <1>3. Squeeze(text, {"-"}, size) = text
    BY <1>1, SqueezeSame DEF IsNormal
  <1>4. Trim(text, {"-"}) = text
    BY <1>1, TrimIs DEF IsNormal
  <1>5. NormalizeTag(text, size) = Trim(Squeeze(m, {"-"}, size), {"-"})
    BY DEF NormalizeTag, SqueezeThenTrim
  <1> HIDE DEF m
  <1> QED BY <1>2, <1>3, <1>4, <1>5

(***************************************************************************)
(* Part 3: lists of tags.                                                  *)
(***************************************************************************)
Tag == {t \in Seq(Spelling) : IsNormal(t, TagSize) /\ t # << >>}

(* A list that is full of different members of X.                          *)
Reaches(X) == \E s \in Seq(X) : Len(s) = TagLimit /\ IsInjective(s)

LEMMA ElementsOfAppend ==
    ASSUME NEW T, NEW s \in Seq(T), NEW x \in T
    PROVE  Range(Append(s, x)) = Range(s) \cup {x}
  <1>1. /\ DOMAIN s = 1 .. Len(s) /\ DOMAIN Append(s, x) = 1 .. Len(s) + 1 /\ Len(s) \in Nat
        /\ \A i \in 1 .. Len(s) : Append(s, x)[i] = s[i]
        /\ Append(s, x)[Len(s) + 1] = x
    OBVIOUS
  <1>2. \A i : i \in 1 .. Len(s) + 1 <=> i \in 1 .. Len(s) \/ i = Len(s) + 1
    BY <1>1
  <1>3. \A y \in Range(s) \cup {x} : y \in Range(Append(s, x))
    BY <1>1, <1>2 DEF Range
  <1>4. \A y \in Range(Append(s, x)) : y \in Range(s) \cup {x}
    <2>1. SUFFICES ASSUME NEW i \in 1 .. Len(s) + 1 PROVE Append(s, x)[i] \in Range(s) \cup {x}
      BY <1>1 DEF Range
    <2> QED BY <1>1, <1>2 DEF Range
  <1> QED BY <1>3, <1>4

LEMMA ListWithin ==
    ASSUME NEW T, NEW s \in Seq(T), NEW U, Range(s) \subseteq U
    PROVE  s \in Seq(U)
  <1> DEFINE r == [i \in 1 .. Len(s) |-> s[i]]
  <1>1. \A i \in 1 .. Len(s) : s[i] \in U
    BY DEF Range
  <1>2. Len(s) \in Nat
    OBVIOUS
  <1>3. r \in Seq(U)
    BY <1>1, <1>2
  <1>4. r = s
    OBVIOUS
  <1> HIDE DEF r
  <1> QED BY <1>3, <1>4

LEMMA ElementsOf ==
    ASSUME NEW T, NEW s \in Seq(T)
    PROVE  /\ Range(s) \subseteq T
           /\ Range(s) = {s[i] : i \in 1 .. Len(s)}
           /\ s \in Seq(Range(s))
  <1>1. Range(s) \subseteq T /\ Range(s) = {s[i] : i \in 1 .. Len(s)}
    BY DEF Range
  <1>2. s \in Seq(Range(s))
    BY ListWithin
  <1> QED BY <1>1, <1>2

LEMMA ElementsOfNothing == Range(<< >>) = {}
  BY DEF Range

LEMMA CountOfDistinct ==
    ASSUME NEW T, NEW s \in Seq(T), IsInjective(s)
    PROVE  IsFiniteSet(Range(s)) /\ Cardinality(Range(s)) = Len(s)
  <1>1. Len(s) \in Nat /\ DOMAIN s = 1 .. Len(s)
    OBVIOUS
  <1>2. IsFiniteSet(1 .. Len(s)) /\ Cardinality(1 .. Len(s)) = Len(s)
    BY <1>1, FS_Interval
  <1>3. s \in Bijection(1 .. Len(s), Range(s))
    <2>1. s \in [1 .. Len(s) -> Range(s)]
      BY <1>1 DEF Range
    <2>2. \A y \in Range(s) : \E x \in 1 .. Len(s) : s[x] = y
      BY <1>1 DEF Range
    <2>3. \A x, y \in 1 .. Len(s) : s[x] = s[y] => x = y
      BY <1>1 DEF IsInjective
    <2> QED BY <2>1, <2>2, <2>3 DEF Bijection, Injection, Surjection, IsInjective
  <1>4. ExistsBijection(1 .. Len(s), Range(s))
    BY <1>3 DEF ExistsBijection
  <1> QED BY <1>2, <1>4, FS_Bijection

LEMMA RangeIsFinite ==
    ASSUME NEW T, NEW s \in Seq(T)
    PROVE  IsFiniteSet(Range(s))
  <1>1. Len(s) \in Nat /\ DOMAIN s = 1 .. Len(s)
    OBVIOUS
  <1>2. IsFiniteSet(1 .. Len(s))
    BY <1>1, FS_Interval
  <1>3. s \in Surjection(1 .. Len(s), Range(s))
    BY <1>1 DEF Surjection, Range
  <1> QED BY <1>2, <1>3, FS_Surjection

LEMMA ReachesCounts ==
    ASSUME NEW X, IsFiniteSet(X), Reaches(X)
    PROVE  Cardinality(X) >= TagLimit
  <1>1. PICK s \in Seq(X) : Len(s) = TagLimit /\ IsInjective(s)
    BY DEF Reaches
  <1>2. Cardinality(Range(s)) = TagLimit
    BY <1>1, CountOfDistinct
  <1>3. Range(s) \in SUBSET X
    BY <1>1, ElementsOf
  <1>4. Cardinality(Range(s)) <= Cardinality(X)
    BY <1>3, FS_Subset
  <1>5. Cardinality(X) \in Nat
    BY FS_CardinalityType
  <1> QED BY <1>2, <1>4, <1>5, LimitAssumption

LEMMA ReachesMore ==
    ASSUME NEW X, NEW Y, X \subseteq Y, Reaches(X)
    PROVE  Reaches(Y)
  <1>1. PICK s \in Seq(X) : Len(s) = TagLimit /\ IsInjective(s)
    BY DEF Reaches
  <1>2. s \in Seq(Y)
    BY <1>1, ElementsOf, ListWithin
  <1> QED BY <1>1, <1>2 DEF Reaches

-----------------------------------------------------------------------------
LEMMA WithoutRange ==
    ASSUME NEW T, NEW array \in Seq(T), NEW others
    PROVE  /\ Without(array, others) \in Seq(T)
           /\ Range(Without(array, others)) = Range(array) \ others
  <1> DEFINE n == Len(array)
             f == WithoutRun(array, others)
  <1>1. /\ f \in [0 .. n -> Seq(T)] /\ f[0] = << >>
        /\ \A i \in 1 .. n :
             f[i] = IF array[i] \in others THEN f[i - 1] ELSE Append(f[i - 1], array[i])
        /\ Without(array, others) = f[n]
    BY WithoutRuns
  <1> HIDE DEF f
  <1> DEFINE Upto(i) == {array[k] : k \in 1 .. i}
             G == {i \in 0 .. n : Range(f[i]) = Upto(i) \ others}
  <1>2. n \in Nat
    OBVIOUS
  <1> HIDE DEF n
  <1>3. 0 \in G
    <2>1. 0 \in 0 .. n /\ Upto(0) = {}
      BY <1>2
    <2>2. Range(f[0]) = {}
      BY <1>1, ElementsOfNothing
    <2> QED BY <2>1, <2>2
  <1>4. ASSUME NEW i \in 1 .. n, i - 1 \in G PROVE i \in G
    <2>1. i \in 0 .. n /\ f[i - 1] \in Seq(T) /\ array[i] \in T
      BY <1>1, <1>2 DEF n
    <2>2. Upto(i) = Upto(i - 1) \cup {array[i]}
      BY <1>2
    <2>3. Range(f[i - 1]) = Upto(i - 1) \ others
      BY <1>4
    <2> HIDE DEF Upto
    <2>4. CASE array[i] \in others
      BY <1>1, <2>1, <2>2, <2>3, <2>4
    <2>5. CASE array[i] \notin others
      <3>1. f[i] = Append(f[i - 1], array[i])
        BY <1>1, <2>5
      <3>2. Range(f[i]) = Range(f[i - 1]) \cup {array[i]}
        BY <2>1, <3>1, ElementsOfAppend
      <3> QED BY <2>1, <2>2, <2>3, <2>5, <3>2
    <2> QED BY <2>4, <2>5
  <1> HIDE DEF G
  <1>5. \A i \in 0 .. n : i \in G
    BY <1>2, <1>3, <1>4, Induction
  <1>6. n \in 0 .. n
    BY <1>2
  <1>7. f[n] \in Seq(T) /\ Range(f[n]) = Upto(n) \ others
    BY <1>1, <1>5, <1>6 DEF G
  <1>8. Upto(n) = Range(array)
    BY DEF Range, n
  <1> QED BY <1>1, <1>7, <1>8

LEMMA WithoutSame ==
    ASSUME NEW T, NEW array \in Seq(T), NEW others, Range(array) \cap others = {}
    PROVE  Without(array, others) = array
  <1> DEFINE n == Len(array)
             f == WithoutRun(array, others)
  <1>1. /\ f \in [0 .. n -> Seq(T)] /\ f[0] = << >>
        /\ \A i \in 1 .. n :
             f[i] = IF array[i] \in others THEN f[i - 1] ELSE Append(f[i - 1], array[i])
        /\ Without(array, others) = f[n]
    BY WithoutRuns
  <1> HIDE DEF f
  <1> DEFINE G == {i \in 0 .. n : Len(f[i]) = i /\ \A k \in 1 .. i : f[i][k] = array[k]}
  <1>2. n \in Nat
    OBVIOUS
  <1>3. \A i \in 1 .. n : array[i] \notin others
    BY DEF Range
  <1> HIDE DEF n
  <1>4. 0 \in G
    <2>1. 0 \in 0 .. n
      BY <1>2
    <2> QED BY <1>1, <2>1
  <1>5. ASSUME NEW i \in 1 .. n, i - 1 \in G PROVE i \in G
    <2>1. i \in 0 .. n /\ f[i - 1] \in Seq(T) /\ array[i] \in T
      BY <1>1, <1>2 DEF n
    <2>2. f[i] = Append(f[i - 1], array[i])
      BY <1>1, <1>3
    <2>3. Len(f[i - 1]) = i - 1 /\ \A k \in 1 .. i - 1 : f[i - 1][k] = array[k]
      BY <1>5
    <2>4. Len(f[i]) = i /\ f[i][i] = array[i] /\ \A k \in 1 .. i - 1 : f[i][k] = f[i - 1][k]
      BY <2>1, <2>2, <2>3
    <2> QED BY <2>1, <2>3, <2>4
  <1> HIDE DEF G
  <1>6. \A i \in 0 .. n : i \in G
    BY <1>2, <1>4, <1>5, Induction
  <1>7. f[n] \in Seq(T) /\ Len(f[n]) = n /\ \A k \in 1 .. n : f[n][k] = array[k]
    BY <1>1, <1>2, <1>6 DEF G
  <1> QED BY <1>1, <1>7 DEF n

LEMMA WithoutAppend ==
    ASSUME NEW T, NEW array \in Seq(T), NEW others, NEW t \in T
    PROVE  Without(Append(array, t), others) =
             IF t \in others THEN Without(array, others)
             ELSE Append(Without(array, others), t)
  <1> DEFINE n == Len(array)
             more == Append(array, t)
             f == WithoutRun(array, others)
             g == WithoutRun(more, others)
  <1>1. /\ f[0] = << >> /\ Without(array, others) = f[n]
        /\ \A i \in 1 .. n :
             f[i] = IF array[i] \in others THEN f[i - 1] ELSE Append(f[i - 1], array[i])
    BY WithoutRuns
  <1>2. /\ n \in Nat /\ more \in Seq(T) /\ Len(more) = n + 1
        /\ more[n + 1] = t /\ \A i \in 1 .. n : more[i] = array[i]
    OBVIOUS
  <1> HIDE DEF more, f
  <1>3. /\ g[0] = << >> /\ Without(more, others) = g[n + 1]
        /\ \A i \in 1 .. n + 1 :
             g[i] = IF more[i] \in others THEN g[i - 1] ELSE Append(g[i - 1], more[i])
    BY <1>2, WithoutRuns
  <1> HIDE DEF g, n
  <1> DEFINE G == {i \in 0 .. n : g[i] = f[i]}
  <1>4. 0 \in G
    BY <1>1, <1>2, <1>3
  <1>5. ASSUME NEW i \in 1 .. n, i - 1 \in G PROVE i \in G
    <2>1. i \in 0 .. n /\ i \in 1 .. n + 1 /\ g[i - 1] = f[i - 1]
      BY <1>2, <1>5
    <2> QED BY <1>1, <1>2, <1>3, <2>1
  <1> HIDE DEF G
  <1>6. \A i \in 0 .. n : i \in G
    BY <1>2, <1>4, <1>5, Induction
  <1>7. g[n] = f[n] /\ n + 1 \in 1 .. n + 1 /\ (n + 1) - 1 = n
    BY <1>2, <1>6 DEF G
  <1>8. g[n + 1] = IF t \in others THEN f[n] ELSE Append(f[n], t)
    BY <1>2, <1>3, <1>7
  <1> QED BY <1>1, <1>3, <1>8 DEF more

LEMMA AddTagsRange ==
    ASSUME NEW T, NEW array \in Seq(T), NEW tags \in Seq(T)
    PROVE  /\ AddTags(array, tags) \in Seq(T)
           /\ Range(AddTags(array, tags)) = Range(array) \cup Range(tags)
  <1> DEFINE n == Len(tags)
             f == AddTagsRun(array, tags)
  <1>1. /\ f \in [0 .. n -> Seq(T)] /\ f[0] = array
        /\ \A i \in 1 .. n : f[i] = AddTag(f[i - 1], tags[i])
        /\ AddTags(array, tags) = f[n]
    BY AddTagsRuns
  <1> HIDE DEF f
  <1> DEFINE Upto(i) == {tags[k] : k \in 1 .. i}
             G == {i \in 0 .. n : Range(f[i]) = Range(array) \cup Upto(i)}
  <1>2. n \in Nat
    OBVIOUS
  <1> HIDE DEF n
  <1>3. 0 \in G
    <2>1. 0 \in 0 .. n /\ Upto(0) = {}
      BY <1>2
    <2> QED BY <1>1, <2>1
  <1>4. ASSUME NEW i \in 1 .. n, i - 1 \in G PROVE i \in G
    <2>1. i \in 0 .. n /\ f[i - 1] \in Seq(T) /\ tags[i] \in T
      BY <1>1, <1>2 DEF n
    <2>2. Upto(i) = Upto(i - 1) \cup {tags[i]}
      BY <1>2
    <2>3. Range(f[i - 1]) = Range(array) \cup Upto(i - 1)
      BY <1>4
    <2> HIDE DEF Upto
    <2>4. CASE tags[i] \in Range(f[i - 1])
      <3>1. f[i] = f[i - 1]
        BY <1>1, <2>4 DEF AddTag
      <3> QED BY <2>1, <2>2, <2>3, <2>4, <3>1
    <2>5. CASE tags[i] \notin Range(f[i - 1])
      <3>1. f[i] = Append(f[i - 1], tags[i])
        BY <1>1, <2>5 DEF AddTag
      <3>2. Range(f[i]) = Range(f[i - 1]) \cup {tags[i]}
        BY <2>1, <3>1, ElementsOfAppend
      <3> QED BY <2>1, <2>2, <2>3, <3>2
    <2> QED BY <2>4, <2>5
  <1> HIDE DEF G
  <1>5. \A i \in 0 .. n : i \in G
    BY <1>2, <1>3, <1>4, Induction
  <1>6. n \in 0 .. n
    BY <1>2
  <1>7. f[n] \in Seq(T) /\ Range(f[n]) = Range(array) \cup Upto(n)
    BY <1>1, <1>5, <1>6 DEF G
  <1>8. Upto(n) = Range(tags)
    BY DEF Range, n
  <1> QED BY <1>1, <1>7, <1>8

(* What was already added, and is removed again, leaves the array as it is. *)
LEMMA AddedAndRemoved ==
    ASSUME NEW T, NEW array \in Seq(T), NEW tags \in Seq(T), NEW others,
           Range(array) \cap others = {}, Range(tags) \ others \subseteq Range(array)
    PROVE  Without(AddTags(array, tags), others) = array
  <1> DEFINE n == Len(tags)
             f == AddTagsRun(array, tags)
  <1>1. /\ f \in [0 .. n -> Seq(T)] /\ f[0] = array
        /\ \A i \in 1 .. n : f[i] = AddTag(f[i - 1], tags[i])
        /\ AddTags(array, tags) = f[n]
    BY AddTagsRuns
  <1> HIDE DEF f
  <1> DEFINE G == {i \in 0 .. n : /\ Without(f[i], others) = array
                                  /\ Range(array) \subseteq Range(f[i])}
  <1>2. n \in Nat /\ \A i \in 1 .. n : tags[i] \in Range(tags) /\ tags[i] \in T
    BY DEF Range
  <1> HIDE DEF n
  <1>3. 0 \in G
    <2>1. 0 \in 0 .. n /\ Without(array, others) = array
      BY <1>2, WithoutSame
    <2> QED BY <1>1, <2>1
  <1>4. ASSUME NEW i \in 1 .. n, i - 1 \in G PROVE i \in G
    <2>1. i \in 0 .. n /\ f[i - 1] \in Seq(T) /\ tags[i] \in T
      BY <1>1, <1>2
    <2>2. Without(f[i - 1], others) = array /\ Range(array) \subseteq Range(f[i - 1])
      BY <1>4
    <2>3. CASE tags[i] \in Range(f[i - 1])
      <3>1. f[i] = f[i - 1]
        BY <1>1, <2>3 DEF AddTag
      <3> QED BY <2>1, <2>2, <3>1
    <2>4. CASE tags[i] \notin Range(f[i - 1])
      <3>1. f[i] = Append(f[i - 1], tags[i])
        BY <1>1, <2>4 DEF AddTag
      <3>2. Range(f[i]) = Range(f[i - 1]) \cup {tags[i]}
        BY <2>1, <3>1, ElementsOfAppend
      <3>3. tags[i] \in others
        BY <1>2, <2>2, <2>4
      <3>4. Without(f[i], others) = Without(f[i - 1], others)
        BY <2>1, <3>1, <3>3, WithoutAppend
      <3> QED BY <2>1, <2>2, <3>2, <3>4
    <2> QED BY <2>3, <2>4
  <1> HIDE DEF G
  <1>5. \A i \in 0 .. n : i \in G
    BY <1>2, <1>3, <1>4, Induction
  <1>6. n \in 0 .. n
    BY <1>2
  <1> QED BY <1>1, <1>5, <1>6 DEF G

(* One tag: a list that is full fails, and it is full of different tags.   *)
LEMMA TagAppended ==
    ASSUME NEW T, NEW list \in Seq(T), NEW tag \in T
    PROVE  LET after == TagListAppend(list, tag)
           IN /\ after \in Seq(T)
              /\ Overflowed(list) => Overflowed(after)
              /\ ~Overflowed(after) => Range(after) = Range(list) \cup {tag}
              /\ ~Overflowed(after) /\ IsInjective(list) => IsInjective(after)
              /\ Overflowed(after) /\ ~Overflowed(list) => Len(list) = TagLimit
  <1> DEFINE after == TagListAppend(list, tag)
  <1>1. TagLimit \in Nat /\ Len(list) \in Nat
    BY LimitAssumption
  <1>2. CASE Len(list) >= TagLimit
    <2>1. after = [i \in 1 .. TagLimit + 1 |-> tag]
      BY <1>2 DEF TagListAppend
    <2>2. after \in Seq(T) /\ Len(after) = TagLimit + 1
      BY <1>1, <2>1
    <2> HIDE DEF after
    <2>3. Overflowed(after)
      BY <1>1, <2>2 DEF Overflowed
    <2>4. ~Overflowed(list) => Len(list) = TagLimit
      BY <1>1, <1>2 DEF Overflowed
    <2> QED BY <2>2, <2>3, <2>4 DEF after
  <1>3. CASE Len(list) < TagLimit /\ tag \in Range(list)
    <2>1. after = list
      BY <1>1, <1>3 DEF TagListAppend
    <2>2. ~Overflowed(list)
      BY <1>1, <1>3 DEF Overflowed
    <2> QED BY <1>3, <2>1, <2>2
  <1>4. CASE Len(list) < TagLimit /\ tag \notin Range(list)
    <2>1. after = Append(list, tag)
      BY <1>1, <1>4 DEF TagListAppend
    <2>2. /\ after \in Seq(T) /\ Len(after) = Len(list) + 1 /\ after[Len(list) + 1] = tag
          /\ \A i \in 1 .. Len(list) : after[i] = list[i]
      BY <2>1
    <2>3. Range(after) = Range(list) \cup {tag}
      BY <2>1, ElementsOfAppend
    <2> HIDE DEF after
    <2>4. ~Overflowed(after) /\ ~Overflowed(list)
      BY <1>1, <1>4, <2>2 DEF Overflowed
    <2>5. ASSUME IsInjective(list) PROVE IsInjective(after)
      <3>1. SUFFICES ASSUME NEW i \in 1 .. Len(list) + 1, NEW j \in 1 .. Len(list) + 1,
                            after[i] = after[j]
                     PROVE  i = j
        BY <2>2 DEF IsInjective
      <3>2. \A k \in 1 .. Len(list) : list[k] # tag
        BY <1>4 DEF Range
      <3>3. CASE i = Len(list) + 1 \/ j = Len(list) + 1
        BY <1>1, <2>2, <3>1, <3>2, <3>3
      <3>4. CASE i # Len(list) + 1 /\ j # Len(list) + 1
        <4>1. i \in 1 .. Len(list) /\ j \in 1 .. Len(list)
          BY <1>1, <3>4
        <4> QED BY <2>2, <2>5, <3>1, <4>1 DEF IsInjective
      <3> QED BY <3>3, <3>4
    <2> QED BY <2>2, <2>3, <2>4, <2>5 DEF after
  <1> QED BY <1>1, <1>2, <1>3, <1>4

(* All of them: a list that does not fail holds both, each tag once; one   *)
(* that fails on the way has reached the limit.                            *)
LEMMA AllAppended ==
    ASSUME NEW T, NEW list \in Seq(T), NEW more \in Seq(T)
    PROVE  LET after == AppendAll(list, more)
           IN /\ after \in Seq(T)
              /\ Overflowed(list) => Overflowed(after)
              /\ ~Overflowed(after) => Range(after) = Range(list) \cup Range(more)
              /\ ~Overflowed(after) /\ IsInjective(list) => IsInjective(after)
              /\ Overflowed(after) /\ ~Overflowed(list) /\ IsInjective(list)
                   => Reaches(Range(list) \cup Range(more))
  <1> DEFINE n == Len(more)
             f == AppendAllRun(list, more)
             X == Range(list) \cup Range(more)
             Upto(i) == {more[k] : k \in 1 .. i}
             G == {i \in 0 .. n :
                     /\ Overflowed(list) => Overflowed(f[i])
                     /\ ~Overflowed(f[i]) => Range(f[i]) = Range(list) \cup Upto(i)
                     /\ ~Overflowed(f[i]) /\ IsInjective(list) => IsInjective(f[i])
                     /\ Overflowed(f[i]) /\ ~Overflowed(list) /\ IsInjective(list) => Reaches(X)}
  <1>1. /\ f \in [0 .. n -> Seq(T)] /\ f[0] = list
        /\ \A i \in 1 .. n : f[i] = TagListAppend(f[i - 1], more[i])
        /\ AppendAll(list, more) = f[n]
    BY AppendAllRuns
  <1>2. n \in Nat /\ Upto(n) = Range(more) /\ \A i \in 1 .. n : more[i] \in T
    BY DEF Range
  <1>3. \A i \in 0 .. n : Upto(i) \subseteq Range(more)
    BY DEF Range
  <1>4. \A i \in 1 .. n : Upto(i) = Upto(i - 1) \cup {more[i]}
    BY <1>2
  <1>5. Upto(0) = {}
    OBVIOUS
  <1> HIDE DEF f, n, Upto
  <1>6. 0 \in G
    BY <1>1, <1>2, <1>5
  <1>7. ASSUME NEW i \in 1 .. n, i - 1 \in G PROVE i \in G
    <2> DEFINE s == f[i - 1]
    <2>1. i \in 0 .. n /\ i - 1 \in 0 .. n /\ s \in Seq(T) /\ more[i] \in T
      BY <1>1, <1>2
    <2>2. f[i] = TagListAppend(s, more[i])
      BY <1>1
    <2>3. /\ Overflowed(list) => Overflowed(s)
          /\ ~Overflowed(s) => Range(s) = Range(list) \cup Upto(i - 1)
          /\ ~Overflowed(s) /\ IsInjective(list) => IsInjective(s)
          /\ Overflowed(s) /\ ~Overflowed(list) /\ IsInjective(list) => Reaches(X)
      BY <1>7
    <2> HIDE DEF s, G, X
    <2>4. /\ Overflowed(s) => Overflowed(f[i])
          /\ ~Overflowed(f[i]) => Range(f[i]) = Range(s) \cup {more[i]}
          /\ ~Overflowed(f[i]) /\ IsInjective(s) => IsInjective(f[i])
          /\ Overflowed(f[i]) /\ ~Overflowed(s) => Len(s) = TagLimit
      <3> DEFINE t == more[i]
                 after == TagListAppend(s, t)
      <3>1. t \in T
        BY <2>1
      <3> HIDE DEF t
      <3>2. /\ Overflowed(s) => Overflowed(after)
            /\ ~Overflowed(after) => Range(after) = Range(s) \cup {t}
            /\ ~Overflowed(after) /\ IsInjective(s) => IsInjective(after)
            /\ Overflowed(after) /\ ~Overflowed(s) => Len(s) = TagLimit
        BY <2>1, <3>1, TagAppended
      <3> QED BY <2>2, <3>2 DEF t
    <2>5. ASSUME Overflowed(f[i]), ~Overflowed(s), IsInjective(s) PROVE Reaches(X)
      <3>1. Len(s) = TagLimit
        BY <2>4, <2>5
      <3>2. Range(s) \subseteq X
        BY <1>3, <2>1, <2>3, <2>5 DEF X
      <3>3. s \in Seq(X)
        BY <2>1, <3>2, ListWithin
      <3> QED BY <2>5, <3>1, <3>3 DEF Reaches
    <2>6. ~Overflowed(f[i]) => Range(f[i]) = Range(list) \cup Upto(i)
      BY <1>4, <2>3, <2>4
    <2> QED BY <2>1, <2>3, <2>4, <2>5, <2>6 DEF G
  <1> HIDE DEF G
  <1>8. \A i \in 0 .. n : i \in G
    BY <1>2, <1>6, <1>7, Induction
  <1>9. n \in 0 .. n
    BY <1>2
  <1> HIDE DEF X
  <1>10. /\ f[n] \in Seq(T)
         /\ Overflowed(list) => Overflowed(f[n])
         /\ ~Overflowed(f[n]) => Range(f[n]) = Range(list) \cup Range(more)
         /\ ~Overflowed(f[n]) /\ IsInjective(list) => IsInjective(f[n])
         /\ Overflowed(f[n]) /\ ~Overflowed(list) /\ IsInjective(list) => Reaches(X)
    BY <1>1, <1>2, <1>8, <1>9 DEF G
  <1> QED BY <1>1, <1>10 DEF X

LEMMA NothingFits == ~Overflowed(<< >>) /\ IsInjective(<< >>) /\ Range(<< >>) = {}
  <1>1. Len(<< >>) = 0 /\ DOMAIN << >> = {}
    OBVIOUS
  <1>2. ~Overflowed(<< >>)
    BY <1>1, LimitAssumption DEF Overflowed
  <1>3. IsInjective(<< >>)
    BY <1>1 DEF IsInjective
  <1> QED BY <1>2, <1>3, ElementsOfNothing

(* A list of spellings is read as the tags they are spellings of.          *)
LEMMA ParseReads ==
    ASSUME NEW T, NEW csv \in Seq(Seq(T))
    PROVE  /\ Parse(csv) \in Seq(Tag)
           /\ ~Overflowed(Parse(csv)) => Range(Parse(csv)) = Tags(csv)
           /\ ~Overflowed(Parse(csv)) => IsInjective(Parse(csv))
           /\ Overflowed(Parse(csv)) => Reaches(Tags(csv))
           /\ Tags(csv) \subseteq Tag /\ IsFiniteSet(Tags(csv))
  <1> DEFINE all == [i \in DOMAIN csv |-> NormalizeTag(csv[i], TagSize)]
             kept == Without(all, {<< >>})
  <1>1. \A i \in DOMAIN csv : NormalizeTag(csv[i], TagSize) \in Tag \cup {<< >>}
    <2>1. SUFFICES ASSUME NEW i \in DOMAIN csv
                   PROVE  NormalizeTag(csv[i], TagSize) \in Tag \cup {<< >>}
      OBVIOUS
    <2>2. csv[i] \in Seq(T)
      OBVIOUS
    <2>3. IsNormal(NormalizeTag(csv[i], TagSize), TagSize)
      BY <2>2, LimitAssumption, NormalizedIsNormal
    <2> QED BY <2>3 DEF Tag, IsNormal
  <1>2. all \in Seq(Tag \cup {<< >>})
    BY <1>1
  <1>3. Range(all) = {NormalizeTag(csv[i], TagSize) : i \in DOMAIN csv}
    BY DEF Range
  <1>4. Parse(csv) = AppendAll(<< >>, kept)
    BY DEF Parse
  <1> HIDE DEF all
  <1>5. kept \in Seq(Tag \cup {<< >>}) /\ Range(kept) = Tags(csv)
    <2>1. kept \in Seq(Tag \cup {<< >>}) /\ Range(kept) = Range(all) \ {<< >>}
      BY <1>2, WithoutRange
    <2> QED BY <1>3, <2>1 DEF Tags
  <1>6. Tags(csv) \subseteq Tag
    BY <1>1 DEF Tags
  <1>7. IsFiniteSet(Tags(csv))
    <2>1. IsFiniteSet(Range(kept))
      BY <1>5, RangeIsFinite
    <2> QED BY <1>5, <2>1
  <1> HIDE DEF kept
  <1>8. kept \in Seq(Tag)
    BY <1>5, <1>6, ListWithin
  <1>9. << >> \in Seq(Tag)
    OBVIOUS
  <1> DEFINE read == AppendAll(<< >>, kept)
  <1>10. /\ read \in Seq(Tag)
         /\ ~Overflowed(read) => Range(read) = Range(<< >>) \cup Range(kept)
         /\ ~Overflowed(read) /\ IsInjective(<< >>) => IsInjective(read)
         /\ Overflowed(read) /\ ~Overflowed(<< >>) /\ IsInjective(<< >>)
              => Reaches(Range(<< >>) \cup Range(kept))
    BY <1>8, <1>9, AllAppended
  <1>11. Range(<< >>) \cup Range(kept) = Tags(csv)
    BY <1>5, NothingFits
  <1> QED BY <1>4, <1>6, <1>7, <1>10, <1>11, NothingFits

LEMMA TagsStay ==
    ASSUME NEW list \in Seq(Tag)
    PROVE  /\ list \in Seq(Seq(Spelling))
           /\ Tags(list) = Range(list)
  <1>1. \A i \in DOMAIN list : list[i] \in Tag
    OBVIOUS
  <1>2. \A t \in Tag : t \in Seq(Spelling) /\ t # << >> /\ NormalizeTag(t, TagSize) = t
    BY LimitAssumption, NormalStays DEF Tag
  <1>3. \A i \in DOMAIN list : NormalizeTag(list[i], TagSize) = list[i] /\ list[i] # << >>
    BY <1>1, <1>2
  <1>4. Tags(list) = Range(list)
    BY <1>3 DEF Tags, Range
  <1>5. Range(list) \subseteq Seq(Spelling)
    BY <1>1, <1>2 DEF Range
  <1>6. list \in Seq(Seq(Spelling))
    BY <1>5, ListWithin
  <1> QED BY <1>4, <1>6

(***************************************************************************)
(* Part 4: what a preview shows of one file.                               *)
(***************************************************************************)
(* A spelling, as it may stand in the file.                                *)
Spelled == Seq(STRING \cup Spelling)

(* What is hidden is normalized by whoever writes it, the lists of tags are *)
(* as the panel's user typed them.                                         *)
EntrySet == [manual : Seq(Spelled), adds : Seq(Spelled), hidden : Seq(Tag)]

Sidecars == UNION {[F -> EntrySet] : F \in SUBSET Keys(Paths)}

LEMMA TagsAreSpelled ==
       /\ Tag \subseteq Spelled /\ Seq(Tag) \subseteq Seq(Spelled)
       /\ Csvs \subseteq Seq(Spelled)
  <1> DEFINE C == STRING \cup Spelling
  <1> HIDE DEF C
  <1>1. \A A : A \subseteq C => Seq(A) \subseteq Seq(C)
    BY ElementsOf, ListWithin
  <1>2. \A A : A \subseteq Seq(C) => Seq(A) \subseteq Seq(Seq(C))
    BY ElementsOf, ListWithin
  <1>3. Tag \subseteq Seq(C)
    BY <1>1 DEF Tag, C
  <1>4. Seq(STRING) \subseteq Seq(C)
    BY <1>1 DEF C
  <1> QED BY <1>2, <1>3, <1>4 DEF Spelled, C, Csvs

LEMMA NoEntryIsEmpty == NoEntry \in EntrySet
  BY DEF NoEntry, EntrySet

LEMMA EntryIsTyped ==
    ASSUME NEW entries \in Sidecars, NEW k
    PROVE  Entry(entries, k) \in EntrySet
  <1>1. PICK F \in SUBSET Keys(Paths) : entries \in [F -> EntrySet]
    BY DEF Sidecars
  <1> QED BY <1>1, NoEntryIsEmpty DEF Entry

(* The tags the whitelisted keys of a file hold.                           *)
Held(f) == UNION {Tags(node.tags) : node \in KeyNodes(f)}

KeysRead(f) == \A node \in KeyNodes(f) : ~Overflowed(Parse(node.tags))

LEMMA NodesOf ==
    ASSUME NEW f \in Files, Metadata[f] # Malformed
    PROVE  /\ Metadata[f] \in Seq([key : STRING, tags : Csvs])
           /\ \A node \in KeyNodes(f) : node.tags \in Seq(Seq(STRING))
           /\ \A i \in DOMAIN Metadata[f] : /\ Metadata[f][i].tags \in Seq(Seq(STRING))
                                            /\ Metadata[f][i].key \in Whitelist =>
                                                 Metadata[f][i] \in KeyNodes(f)
  <1>1. Metadata[f] \in Seq([key : STRING, tags : Csvs])
    BY MetadataAssumption
  <1>2. \A i \in DOMAIN Metadata[f] : Metadata[f][i] \in [key : STRING, tags : Csvs]
    <2> DEFINE R == [key : STRING, tags : Csvs]
    <2> HIDE DEF R
    <2>1. \A s \in Seq(R) : \A i \in DOMAIN s : s[i] \in R
      OBVIOUS
    <2> QED BY <1>1, <2>1 DEF R
  <1>3. \A node \in KeyNodes(f) : node \in [key : STRING, tags : Csvs]
    BY <1>2 DEF KeyNodes, Range
  <1>4. \A node \in [key : STRING, tags : Csvs] : node.tags \in Seq(Seq(STRING))
    BY DEF Csvs
  <1>5. \A i \in DOMAIN Metadata[f] : Metadata[f][i].key \in Whitelist => Metadata[f][i] \in KeyNodes(f)
    BY DEF KeyNodes, Range
  <1> QED BY <1>1, <1>2, <1>3, <1>4, <1>5

LEMMA HeldIsFinite ==
    ASSUME NEW f \in Files, Metadata[f] # Malformed
    PROVE  IsFiniteSet(Held(f))
  <1> DEFINE N == KeyNodes(f)
             image == [node \in N |-> Tags(node.tags)]
             S == {Tags(node.tags) : node \in N}
  <1>1. IsFiniteSet(N)
    <2>1. IsFiniteSet(Range(Metadata[f]))
      BY NodesOf, RangeIsFinite
    <2>2. N \in SUBSET Range(Metadata[f])
      BY DEF KeyNodes
    <2> QED BY <2>1, <2>2, FS_Subset
  <1>2. \A node \in N : IsFiniteSet(Tags(node.tags))
    BY NodesOf, ParseReads
  <1> HIDE DEF N
  <1>3. image \in Surjection(N, S)
    BY DEF Surjection
  <1> HIDE DEF image
  <1>4. IsFiniteSet(S)
    BY <1>1, <1>3, FS_Surjection
  <1>5. \A x \in S : IsFiniteSet(x)
    BY <1>2
  <1> HIDE DEF S
  <1>6. IsFiniteSet(UNION S)
    BY <1>4, <1>5, FS_UNION
  <1> QED BY <1>6 DEF S, N, Held

(* The metadata of a file, key by key: only tags its keys hold, none that  *)
(* is hidden; and when it fails although each key is read, they have       *)
(* reached the limit together.                                             *)
LEMMA KeyTagsAre ==
    ASSUME NEW f \in Files, Metadata[f] # Malformed, KeysRead(f), NEW hidden
    PROVE  /\ KeyTags(f, hidden) \in Seq(Tag)
           /\ ~Overflowed(KeyTags(f, hidden)) =>
                /\ Range(KeyTags(f, hidden)) \subseteq Held(f) \ hidden
                /\ IsInjective(KeyTags(f, hidden))
           /\ Overflowed(KeyTags(f, hidden)) => Reaches(Held(f))
  <1> DEFINE nodes == Metadata[f]
             n == Len(nodes)
             g == KeyTagsRun(f, hidden)
             kept(node) == Without(Parse(node.tags), hidden)
  <1>1. /\ nodes \in Seq([key : STRING, tags : Csvs])
        /\ \A i \in 1 .. n : /\ nodes[i].tags \in Seq(Seq(STRING))
                             /\ nodes[i].key \in Whitelist => nodes[i] \in KeyNodes(f)
    <2>1. nodes \in Seq([key : STRING, tags : Csvs])
      BY NodesOf
    <2>2. DOMAIN nodes = 1 .. n
      <3> DEFINE R == [key : STRING, tags : Csvs]
      <3> HIDE DEF nodes, R
      <3> QED BY <2>1 DEF R
    <2> QED BY <2>1, <2>2, NodesOf
  <1> HIDE DEF nodes
  <1>2. \A i \in 1 .. n : Parse(nodes[i].tags) \in Seq(Tag)
    BY <1>1, ParseReads
  <1>3. \A i \in 1 .. n : kept(nodes[i]) \in Seq(Tag)
    BY <1>2, WithoutRange
  <1>4. ASSUME NEW i \in 1 .. n, nodes[i].key \in Whitelist
        PROVE  Range(kept(nodes[i])) \subseteq Held(f) \ hidden
    <2>1. nodes[i] \in KeyNodes(f)
      BY <1>1, <1>4
    <2>2. Range(Parse(nodes[i].tags)) = Tags(nodes[i].tags)
      BY <1>1, <2>1, ParseReads DEF KeysRead
    <2>3. Range(kept(nodes[i])) = Tags(nodes[i].tags) \ hidden
      BY <1>2, <2>2, WithoutRange
    <2>4. Tags(nodes[i].tags) \subseteq Held(f)
      BY <2>1 DEF Held
    <2> QED BY <2>3, <2>4
  <1> HIDE DEF kept
  <1>5. \A i \in 1 .. n, s \in Seq(Tag) : AppendAll(s, kept(nodes[i])) \in Seq(Tag)
    BY <1>3, AllAppended
  <1>6. \A i \in 1 .. n, s \in Seq(Tag) :
          KeyTagsOf(s, nodes[i], hidden) =
            IF nodes[i].key \in Whitelist THEN AppendAll(s, kept(nodes[i])) ELSE s
    BY DEF KeyTagsOf, kept
  <1>7. \A i \in DOMAIN nodes, s \in Seq(Tag) : KeyTagsOf(s, nodes[i], hidden) \in Seq(Tag)
    <2>1. DOMAIN nodes = 1 .. n
      BY <1>1
    <2>2. \A i \in 1 .. n, s \in Seq(Tag) : KeyTagsOf(s, nodes[i], hidden) \in Seq(Tag)
      BY <1>5, <1>6
    <2> QED BY <2>1, <2>2
  <1>8. /\ g \in [0 .. n -> Seq(Tag)] /\ g[0] = << >>
        /\ \A i \in 1 .. n : g[i] = KeyTagsOf(g[i - 1], nodes[i], hidden)
        /\ KeyTags(f, hidden) = g[n]
    BY <1>1, <1>7, KeyTagsRuns DEF nodes
  <1> HIDE DEF g
  <1> DEFINE G == {i \in 0 .. n :
                     /\ ~Overflowed(g[i]) => Range(g[i]) \subseteq Held(f) \ hidden
                     /\ ~Overflowed(g[i]) => IsInjective(g[i])
                     /\ Overflowed(g[i]) => Reaches(Held(f))}
  <1>9. n \in Nat
    BY <1>1
  <1> HIDE DEF n
  <1>10. 0 \in G
    <2>1. 0 \in 0 .. n
      BY <1>9
    <2> QED BY <1>8, <2>1, NothingFits
  <1>11. ASSUME NEW i \in 1 .. n, i - 1 \in G PROVE i \in G
    <2> DEFINE s == g[i - 1]
               k == kept(nodes[i])
               after == AppendAll(s, k)
    <2>1. i \in 0 .. n /\ i - 1 \in 0 .. n /\ s \in Seq(Tag)
      BY <1>8, <1>9
    <2>2. /\ ~Overflowed(s) => Range(s) \subseteq Held(f) \ hidden
          /\ ~Overflowed(s) => IsInjective(s)
          /\ Overflowed(s) => Reaches(Held(f))
      BY <1>11
    <2>3. g[i] = IF nodes[i].key \in Whitelist THEN after ELSE s
      BY <1>6, <1>8, <2>1
    <2>4. k \in Seq(Tag)
      BY <1>3
    <2> HIDE DEF s
    <2>5. CASE nodes[i].key \notin Whitelist
      BY <2>1, <2>2, <2>3, <2>5
    <2>6. CASE nodes[i].key \in Whitelist
      <3>1. Range(k) \subseteq Held(f) \ hidden
        BY <1>4, <2>6
      <3> HIDE DEF k
      <3>2. /\ Overflowed(s) => Overflowed(after)
            /\ ~Overflowed(after) => Range(after) = Range(s) \cup Range(k)
            /\ ~Overflowed(after) /\ IsInjective(s) => IsInjective(after)
            /\ Overflowed(after) /\ ~Overflowed(s) /\ IsInjective(s)
                 => Reaches(Range(s) \cup Range(k))
        BY <2>1, <2>4, AllAppended
      <3>3. ASSUME Overflowed(after), ~Overflowed(s) PROVE Reaches(Held(f))
        <4>1. Range(s) \cup Range(k) \subseteq Held(f)
          BY <2>2, <3>1, <3>3
        <4>2. Reaches(Range(s) \cup Range(k))
          BY <2>2, <3>2, <3>3
        <4> QED BY <4>1, <4>2, ReachesMore
      <3>4. g[i] = after
        BY <2>3, <2>6
      <3> HIDE DEF after
      <3> QED BY <2>1, <2>2, <3>1, <3>2, <3>3, <3>4
    <2> QED BY <2>5, <2>6
  <1> HIDE DEF G
  <1>12. \A i \in 0 .. n : i \in G
    BY <1>9, <1>10, <1>11, Induction
  <1>13. n \in 0 .. n
    BY <1>9
  <1> QED BY <1>8, <1>12, <1>13 DEF G

-----------------------------------------------------------------------------
(* A preview that is shown.                                                *)
LEMMA ResolvedTags ==
    ASSUME NEW entries \in Sidecars, NEW f \in Files, Resolves(entries, f)
    PROVE  LET entry == Entry(entries, Key[f])
               r == Resolved(entries, f)
           IN /\ Range(r.manual) = Tags(entry.manual)
              /\ Tags(entry.adds) \ Range(entry.hidden) \subseteq Range(r.meta)
              /\ Range(r.meta) \cap Range(entry.hidden) = {}
              /\ Range(r.merged) = Range(r.manual) \cup Range(r.meta)
              /\ Cardinality(Range(r.merged)) = Len(r.merged)
  <1> DEFINE entry == Entry(entries, Key[f])
             r == Resolved(entries, f)
             hidden == Range(entry.hidden)
             manual == Parse(entry.manual)
             adds == Without(Parse(entry.adds), hidden)
             keys == KeyTags(f, hidden)
             meta == AppendAll(keys, adds)
             first == AppendAll(<< >>, manual)
             merged == AppendAll(first, meta)
  <1>1. entry \in EntrySet
    BY EntryIsTyped
  <1>2. r.manual = manual /\ r.meta = meta /\ r.merged = merged
    BY DEF Resolved, MetaTags
  <1>3. /\ Metadata[f] # Malformed /\ KeysRead(f)
        /\ ~Overflowed(manual) /\ ~Overflowed(meta) /\ ~Overflowed(merged)
        /\ ~Overflowed(Parse(entry.adds))
    BY <1>2 DEF Resolves, KeysRead
  <1>4. manual \in Seq(Tag) /\ Range(manual) = Tags(entry.manual) /\ IsInjective(manual)
    <2>1. entry.manual \in Seq(Seq(STRING \cup Spelling))
      BY <1>1 DEF EntrySet, Spelled
    <2> HIDE DEF entry
    <2> QED BY <1>3, <2>1, ParseReads
  <1>5. adds \in Seq(Tag) /\ Range(adds) = Tags(entry.adds) \ hidden
    <2>1. entry.adds \in Seq(Seq(STRING \cup Spelling))
      BY <1>1 DEF EntrySet, Spelled
    <2> HIDE DEF entry, hidden
    <2>2. Parse(entry.adds) \in Seq(Tag) /\ Range(Parse(entry.adds)) = Tags(entry.adds)
      BY <1>3, <2>1, ParseReads
    <2> QED BY <2>2, WithoutRange
  <1>6. /\ keys \in Seq(Tag)
        /\ ~Overflowed(keys) => Range(keys) \cap hidden = {} /\ IsInjective(keys)
    BY <1>3, KeyTagsAre
  <1> HIDE DEF entry, hidden, manual, adds, keys
  <1>7. ~Overflowed(keys) /\ Range(meta) = Range(keys) \cup Range(adds) /\ meta \in Seq(Tag)
    BY <1>3, <1>5, <1>6, AllAppended
  <1> HIDE DEF meta
  <1>8. << >> \in Seq(Tag)
    OBVIOUS
  <1>9. first \in Seq(Tag) /\ (~Overflowed(first) => Range(first) = Range(manual) /\ IsInjective(first))
    <2>1. /\ first \in Seq(Tag)
          /\ ~Overflowed(first) => Range(first) = Range(<< >>) \cup Range(manual)
          /\ ~Overflowed(first) /\ IsInjective(<< >>) => IsInjective(first)
      BY <1>4, <1>8, AllAppended
    <2> QED BY <2>1, NothingFits
  <1> HIDE DEF first
  <1>10. /\ ~Overflowed(first) /\ merged \in Seq(Tag) /\ IsInjective(merged)
         /\ Range(merged) = Range(first) \cup Range(meta)
    <2>1. ~Overflowed(first)
      BY <1>3, <1>7, <1>9, AllAppended
    <2> QED BY <1>3, <1>7, <1>9, <2>1, AllAppended
  <1> HIDE DEF merged
  <1>11. Cardinality(Range(merged)) = Len(merged)
    BY <1>10, CountOfDistinct
  <1>12. Range(manual) = Tags(entry.manual) /\ Tags(entry.adds) \ hidden \subseteq Range(meta)
    BY <1>4, <1>5, <1>7
  <1>13. Range(meta) \cap hidden = {} /\ Range(merged) = Range(manual) \cup Range(meta)
    BY <1>5, <1>6, <1>7, <1>9, <1>10
  <1> HIDE DEF r
  <1> QED BY <1>2, <1>11, <1>12, <1>13 DEF entry, hidden, r

(* A preview that is not.                                                  *)
LEMMA UnresolvedReaches ==
    ASSUME NEW entries \in Sidecars, NEW f \in Files, Metadata[f] # Malformed,
           ~Resolves(entries, f)
    PROVE  Cardinality(Tags(Entry(entries, Key[f]).manual) \cup Tags(Entry(entries, Key[f]).adds)
                       \cup Held(f)) >= TagLimit
  <1> DEFINE entry == Entry(entries, Key[f])
             X == Tags(entry.manual) \cup Tags(entry.adds) \cup Held(f)
             hidden == Range(entry.hidden)
             manual == Parse(entry.manual)
             read == Parse(entry.adds)
             adds == Without(read, hidden)
             keys == KeyTags(f, hidden)
             meta == AppendAll(keys, adds)
             first == AppendAll(<< >>, manual)
             merged == AppendAll(first, meta)
  <1>1. /\ entry.manual \in Seq(Seq(STRING \cup Spelling))
        /\ entry.adds \in Seq(Seq(STRING \cup Spelling))
    BY EntryIsTyped DEF EntrySet, Spelled
  <1>2. \/ ~KeysRead(f)
        \/ KeysRead(f) /\ (Overflowed(manual) \/ Overflowed(meta) \/ Overflowed(merged) \/ Overflowed(read))
    BY DEF Resolves, Resolved, MetaTags, KeysRead
  <1> HIDE DEF entry, hidden
  <1>3. IsFiniteSet(X)
    <2>1. IsFiniteSet(Tags(entry.manual)) /\ IsFiniteSet(Tags(entry.adds)) /\ IsFiniteSet(Held(f))
      BY <1>1, ParseReads, HeldIsFinite
    <2> QED BY <2>1, FS_Union
  <1>4. SUFFICES Reaches(X)
    BY <1>3, ReachesCounts DEF entry
  <1>5. Tags(entry.manual) \subseteq X /\ Tags(entry.adds) \subseteq X /\ Held(f) \subseteq X
    OBVIOUS
  <1> HIDE DEF X
  <1>6. CASE ~KeysRead(f)
    <2>1. PICK node \in KeyNodes(f) : Overflowed(Parse(node.tags))
      BY <1>6 DEF KeysRead
    <2>2. Reaches(Tags(node.tags))
      BY <2>1, NodesOf, ParseReads
    <2>3. Tags(node.tags) \subseteq X
      BY <1>5 DEF Held
    <2> QED BY <2>2, <2>3, ReachesMore
  <1>7. /\ manual \in Seq(Tag)
        /\ Overflowed(manual) => Reaches(X)
        /\ ~Overflowed(manual) => Range(manual) \subseteq X
    <2>1. /\ manual \in Seq(Tag)
          /\ Overflowed(manual) => Reaches(Tags(entry.manual))
          /\ ~Overflowed(manual) => Range(manual) = Tags(entry.manual)
      BY <1>1, ParseReads
    <2> HIDE DEF manual
    <2> QED BY <1>5, <2>1, ReachesMore
  <1>8. /\ read \in Seq(Tag)
        /\ Overflowed(read) => Reaches(X)
        /\ ~Overflowed(read) => Range(read) \subseteq X
    <2>1. /\ read \in Seq(Tag)
          /\ Overflowed(read) => Reaches(Tags(entry.adds))
          /\ ~Overflowed(read) => Range(read) = Tags(entry.adds)
      BY <1>1, ParseReads
    <2> HIDE DEF read
    <2> QED BY <1>5, <2>1, ReachesMore
  <1> HIDE DEF manual, read
  <1>9. CASE KeysRead(f) /\ ~Overflowed(manual) /\ ~Overflowed(read)
    <2>1. adds \in Seq(Tag) /\ Range(adds) \subseteq X
      BY <1>8, <1>9, WithoutRange
    <2>2. /\ keys \in Seq(Tag)
          /\ ~Overflowed(keys) => Range(keys) \subseteq X /\ IsInjective(keys)
          /\ Overflowed(keys) => Reaches(X)
      <3>1. /\ keys \in Seq(Tag)
            /\ ~Overflowed(keys) => Range(keys) \subseteq Held(f) \ hidden /\ IsInjective(keys)
            /\ Overflowed(keys) => Reaches(Held(f))
        BY <1>9, KeyTagsAre
      <3> HIDE DEF keys
      <3> QED BY <1>5, <3>1, ReachesMore
    <2> HIDE DEF adds, keys
    <2>3. /\ meta \in Seq(Tag)
          /\ Overflowed(meta) => Reaches(X)
          /\ ~Overflowed(meta) => Range(meta) \subseteq X
      <3>1. /\ meta \in Seq(Tag)
            /\ Overflowed(keys) => Overflowed(meta)
            /\ ~Overflowed(meta) => Range(meta) = Range(keys) \cup Range(adds)
            /\ Overflowed(meta) /\ ~Overflowed(keys) /\ IsInjective(keys)
                 => Reaches(Range(keys) \cup Range(adds))
        BY <2>1, <2>2, AllAppended
      <3> HIDE DEF meta
      <3>2. ~Overflowed(keys) => Range(keys) \cup Range(adds) \subseteq X
        BY <2>1, <2>2
      <3> QED BY <2>2, <3>1, <3>2, ReachesMore
    <2> HIDE DEF meta
    <2>4. /\ first \in Seq(Tag)
          /\ Overflowed(first) => Reaches(X)
          /\ ~Overflowed(first) => Range(first) \subseteq X /\ IsInjective(first)
      <3>1. << >> \in Seq(Tag)
        OBVIOUS
      <3>2. /\ first \in Seq(Tag)
            /\ ~Overflowed(first) => Range(first) = Range(<< >>) \cup Range(manual)
            /\ ~Overflowed(first) /\ IsInjective(<< >>) => IsInjective(first)
            /\ Overflowed(first) /\ ~Overflowed(<< >>) /\ IsInjective(<< >>)
                 => Reaches(Range(<< >>) \cup Range(manual))
        BY <1>7, <3>1, AllAppended
      <3> HIDE DEF first
      <3>3. Range(<< >>) \cup Range(manual) \subseteq X
        BY <1>7, <1>9, NothingFits
      <3> QED BY <3>2, <3>3, NothingFits, ReachesMore
    <2> HIDE DEF first
    <2>5. Overflowed(merged) /\ ~Overflowed(meta) => Reaches(X)
      <3>1. Overflowed(merged) /\ ~Overflowed(first) /\ IsInjective(first)
              => Reaches(Range(first) \cup Range(meta))
        BY <2>3, <2>4, AllAppended
      <3> HIDE DEF merged
      <3>2. SUFFICES ASSUME Overflowed(merged), ~Overflowed(meta), ~Overflowed(first)
                     PROVE  Reaches(X)
        BY <2>4
      <3>3. Range(first) \cup Range(meta) \subseteq X
        BY <2>3, <2>4, <3>2
      <3> QED BY <2>4, <3>1, <3>2, <3>3, ReachesMore
    <2> QED BY <1>2, <1>9, <2>3, <2>5
  <1> QED BY <1>2, <1>6, <1>7, <1>8, <1>9

(***************************************************************************)
(* Part 5: the edits.                                                      *)
(***************************************************************************)
(* A request of the user, or one whose map is a sidecar.                   *)
Items == [path : Paths, manual : Seq(Spelled), adds : Seq(Spelled), hidden : Seq(Spelled)]

RequestSet ==
    [batch : SUBSET Files, map : Seq(Items),
     add : Csvs, remove : Csvs, metaAdd : Csvs, metaRemove : Csvs]

LEMMA RemoveTagsRange ==
    ASSUME NEW T, NEW array \in Seq(T), NEW tags
    PROVE  /\ RemoveTags(array, tags) \in Seq(T)
           /\ Range(RemoveTags(array, tags)) = Range(array) \ Range(tags)
  BY WithoutRange DEF RemoveTags

LEMMA BulkListsRead ==
    ASSUME NEW r \in RequestSet, BulkReads(r)
    PROVE  /\ Parse(r.add) \in Seq(Tag) /\ Range(Parse(r.add)) = Tags(r.add)
           /\ Parse(r.remove) \in Seq(Tag) /\ Range(Parse(r.remove)) = Tags(r.remove)
           /\ Parse(r.metaAdd) \in Seq(Tag) /\ Range(Parse(r.metaAdd)) = Tags(r.metaAdd)
           /\ Parse(r.metaRemove) \in Seq(Tag) /\ Range(Parse(r.metaRemove)) = Tags(r.metaRemove)
  <1>1. /\ r.add \in Seq(Seq(STRING)) /\ r.remove \in Seq(Seq(STRING))
        /\ r.metaAdd \in Seq(Seq(STRING)) /\ r.metaRemove \in Seq(Seq(STRING))
    BY DEF RequestSet, Csvs
  <1>2. /\ ~Overflowed(Parse(r.add)) /\ ~Overflowed(Parse(r.remove))
        /\ ~Overflowed(Parse(r.metaAdd)) /\ ~Overflowed(Parse(r.metaRemove))
    BY DEF BulkReads
  <1> QED BY <1>1, <1>2, ParseReads

LEMMA EditFields ==
    ASSUME NEW entry \in EntrySet, NEW tags \in Seq(Tag)
    PROVE  /\ LET e == Showing(entry, tags, "manual")
              IN e \in EntrySet /\ e.manual = AddTags(entry.manual, tags) /\ e.adds = entry.adds
                 /\ e.hidden = RemoveTags(entry.hidden, tags)
           /\ LET e == Showing(entry, tags, "adds")
              IN e \in EntrySet /\ e.adds = AddTags(entry.adds, tags) /\ e.manual = entry.manual
                 /\ e.hidden = RemoveTags(entry.hidden, tags)
           /\ LET e == Hiding(entry, tags, "manual")
              IN e \in EntrySet /\ e.manual = RemoveTags(entry.manual, tags) /\ e.adds = entry.adds
                 /\ e.hidden = AddTags(entry.hidden, tags)
           /\ LET e == Hiding(entry, tags, "adds")
              IN e \in EntrySet /\ e.adds = RemoveTags(entry.adds, tags) /\ e.manual = entry.manual
                 /\ e.hidden = AddTags(entry.hidden, tags)
  <1>0. tags \in Seq(Spelled)
    BY TagsAreSpelled
  <1>1. /\ \A list \in Seq(Tag) : AddTags(list, tags) \in Seq(Tag) /\ RemoveTags(list, tags) \in Seq(Tag)
        /\ \A list \in Seq(Spelled) : AddTags(list, tags) \in Seq(Spelled) /\ RemoveTags(list, tags) \in Seq(Spelled)
    BY <1>0, AddTagsRange, RemoveTagsRange
  <1>2. LET e == Showing(entry, tags, "manual")
        IN e \in EntrySet /\ e.manual = AddTags(entry.manual, tags) /\ e.adds = entry.adds
           /\ e.hidden = RemoveTags(entry.hidden, tags)
    BY <1>1 DEF Showing, EntrySet
  <1>3. LET e == Showing(entry, tags, "adds")
        IN e \in EntrySet /\ e.adds = AddTags(entry.adds, tags) /\ e.manual = entry.manual
           /\ e.hidden = RemoveTags(entry.hidden, tags)
    BY <1>1 DEF Showing, EntrySet
  <1>4. LET e == Hiding(entry, tags, "manual")
        IN e \in EntrySet /\ e.manual = RemoveTags(entry.manual, tags) /\ e.adds = entry.adds
           /\ e.hidden = AddTags(entry.hidden, tags)
    BY <1>1 DEF Hiding, EntrySet
  <1>5. LET e == Hiding(entry, tags, "adds")
        IN e \in EntrySet /\ e.adds = RemoveTags(entry.adds, tags) /\ e.manual = entry.manual
           /\ e.hidden = AddTags(entry.hidden, tags)
    BY <1>1 DEF Hiding, EntrySet
  <1> QED BY <1>2, <1>3, <1>4, <1>5

LEMMA BulkFields ==
    ASSUME NEW entry \in EntrySet, NEW r \in RequestSet, BulkReads(r)
    PROVE  LET add == Parse(r.add)
               remove == Parse(r.remove)
               metaAdd == Parse(r.metaAdd)
               metaRemove == Parse(r.metaRemove)
               after == Bulk(entry, r)
           IN /\ after \in EntrySet
              /\ after.manual = RemoveTags(AddTags(entry.manual, add), remove)
              /\ after.adds = RemoveTags(AddTags(entry.adds, metaAdd), metaRemove)
              /\ after.hidden = AddTags(RemoveTags(AddTags(RemoveTags(entry.hidden, add), remove),
                                                   metaAdd), metaRemove)
  <1> DEFINE add == Parse(r.add)
             remove == Parse(r.remove)
             metaAdd == Parse(r.metaAdd)
             metaRemove == Parse(r.metaRemove)
             e1 == Showing(entry, add, "manual")
             e2 == Hiding(e1, remove, "manual")
             e3 == Showing(e2, metaAdd, "adds")
             e4 == Hiding(e3, metaRemove, "adds")
  <1>1. /\ add \in Seq(Tag) /\ remove \in Seq(Tag)
        /\ metaAdd \in Seq(Tag) /\ metaRemove \in Seq(Tag)
    BY BulkListsRead
  <1>2. Bulk(entry, r) = e4
    BY DEF Bulk
  <1> HIDE DEF add, remove, metaAdd, metaRemove
  <1>3. /\ e1 \in EntrySet /\ e1.manual = AddTags(entry.manual, add) /\ e1.adds = entry.adds
        /\ e1.hidden = RemoveTags(entry.hidden, add)
    BY <1>1, EditFields
  <1> HIDE DEF e1
  <1>4. /\ e2 \in EntrySet /\ e2.manual = RemoveTags(e1.manual, remove) /\ e2.adds = e1.adds
        /\ e2.hidden = AddTags(e1.hidden, remove)
    BY <1>1, <1>3, EditFields
  <1> HIDE DEF e2
  <1>5. /\ e3 \in EntrySet /\ e3.adds = AddTags(e2.adds, metaAdd) /\ e3.manual = e2.manual
        /\ e3.hidden = RemoveTags(e2.hidden, metaAdd)
    BY <1>1, <1>4, EditFields
  <1> HIDE DEF e3
  <1>6. /\ e4 \in EntrySet /\ e4.adds = RemoveTags(e3.adds, metaRemove) /\ e4.manual = e3.manual
        /\ e4.hidden = AddTags(e3.hidden, metaRemove)
    BY <1>1, <1>5, EditFields
  <1> HIDE DEF e4
  <1> QED BY <1>2, <1>3, <1>4, <1>5, <1>6 DEF add, remove, metaAdd, metaRemove

LEMMA BulkRanges ==
    ASSUME NEW entry \in EntrySet, NEW r \in RequestSet, BulkReads(r)
    PROVE  LET after == Bulk(entry, r)
           IN /\ after \in EntrySet
              /\ Range(after.manual) = (Range(entry.manual) \cup Tags(r.add)) \ Tags(r.remove)
              /\ Range(after.adds) = (Range(entry.adds) \cup Tags(r.metaAdd)) \ Tags(r.metaRemove)
              /\ Range(after.hidden) =
                   (((Range(entry.hidden) \ Tags(r.add)) \cup Tags(r.remove))
                      \ Tags(r.metaAdd)) \cup Tags(r.metaRemove)
  <1> DEFINE add == Parse(r.add)
             remove == Parse(r.remove)
             metaAdd == Parse(r.metaAdd)
             metaRemove == Parse(r.metaRemove)
             manual == RemoveTags(AddTags(entry.manual, add), remove)
             adds == RemoveTags(AddTags(entry.adds, metaAdd), metaRemove)
             h1 == RemoveTags(entry.hidden, add)
             h2 == AddTags(h1, remove)
             h3 == RemoveTags(h2, metaAdd)
             h4 == AddTags(h3, metaRemove)
  <1>1. /\ add \in Seq(Tag) /\ Range(add) = Tags(r.add)
        /\ remove \in Seq(Tag) /\ Range(remove) = Tags(r.remove)
        /\ metaAdd \in Seq(Tag) /\ Range(metaAdd) = Tags(r.metaAdd)
        /\ metaRemove \in Seq(Tag) /\ Range(metaRemove) = Tags(r.metaRemove)
    BY BulkListsRead
  <1>2. /\ entry.manual \in Seq(Spelled) /\ entry.adds \in Seq(Spelled) /\ entry.hidden \in Seq(Tag)
        /\ add \in Seq(Spelled) /\ metaAdd \in Seq(Spelled)
    BY <1>1, TagsAreSpelled DEF EntrySet
  <1>3. LET after == Bulk(entry, r)
        IN after \in EntrySet /\ after.manual = manual /\ after.adds = adds /\ after.hidden = h4
    BY BulkFields
  <1> HIDE DEF add, remove, metaAdd, metaRemove
  <1>4. manual \in Seq(Spelled) /\ Range(manual) = (Range(entry.manual) \cup Tags(r.add)) \ Tags(r.remove)
    BY <1>1, <1>2, AddTagsRange, RemoveTagsRange
  <1>5. adds \in Seq(Spelled) /\ Range(adds) = (Range(entry.adds) \cup Tags(r.metaAdd)) \ Tags(r.metaRemove)
    BY <1>1, <1>2, AddTagsRange, RemoveTagsRange
  <1>6. h1 \in Seq(Tag) /\ Range(h1) = Range(entry.hidden) \ Tags(r.add)
    BY <1>1, <1>2, RemoveTagsRange
  <1> HIDE DEF h1
  <1>7. h2 \in Seq(Tag) /\ Range(h2) = Range(h1) \cup Tags(r.remove)
    BY <1>1, <1>6, AddTagsRange
  <1> HIDE DEF h2
  <1>8. h3 \in Seq(Tag) /\ Range(h3) = Range(h2) \ Tags(r.metaAdd)
    BY <1>1, <1>7, RemoveTagsRange
  <1> HIDE DEF h3
  <1>9. h4 \in Seq(Tag) /\ Range(h4) = Range(h3) \cup Tags(r.metaRemove)
    BY <1>1, <1>8, AddTagsRange
  <1> HIDE DEF manual, adds, h4
  <1> QED BY <1>3, <1>4, <1>5, <1>6, <1>7, <1>8, <1>9

(* The same lists applied again change neither list, nor what is hidden.   *)
LEMMA BulkAgain ==
    ASSUME NEW entry \in EntrySet, NEW r \in RequestSet, BulkReads(r)
    PROVE  LET once == Bulk(entry, r)
               twice == Bulk(once, r)
           IN /\ twice.manual = once.manual /\ twice.adds = once.adds
              /\ Range(twice.hidden) = Range(once.hidden)
  <1> DEFINE once == Bulk(entry, r)
             twice == Bulk(once, r)
  <1>1. /\ once \in EntrySet
        /\ Range(once.manual) = (Range(entry.manual) \cup Tags(r.add)) \ Tags(r.remove)
        /\ Range(once.adds) = (Range(entry.adds) \cup Tags(r.metaAdd)) \ Tags(r.metaRemove)
        /\ Range(once.hidden) =
             (((Range(entry.hidden) \ Tags(r.add)) \cup Tags(r.remove))
                \ Tags(r.metaAdd)) \cup Tags(r.metaRemove)
    BY BulkRanges
  <1> HIDE DEF once
  <1>2. Range(twice.hidden) =
             (((Range(once.hidden) \ Tags(r.add)) \cup Tags(r.remove))
                \ Tags(r.metaAdd)) \cup Tags(r.metaRemove)
    BY <1>1, BulkRanges
  <1>3. /\ twice.manual = RemoveTags(AddTags(once.manual, Parse(r.add)), Parse(r.remove))
        /\ twice.adds = RemoveTags(AddTags(once.adds, Parse(r.metaAdd)), Parse(r.metaRemove))
    BY <1>1, BulkFields
  <1>4. once.manual \in Seq(Spelled) /\ once.adds \in Seq(Spelled)
    BY <1>1 DEF EntrySet
  <1>5. twice.manual = once.manual
    <2>1. /\ Range(once.manual) \cap Range(Parse(r.remove)) = {}
          /\ Range(Parse(r.add)) \ Range(Parse(r.remove)) \subseteq Range(once.manual)
          /\ Parse(r.add) \in Seq(Spelled)
      BY <1>1, BulkListsRead, TagsAreSpelled
    <2> QED BY <1>3, <1>4, <2>1, AddedAndRemoved DEF RemoveTags
  <1>6. twice.adds = once.adds
    <2>1. /\ Range(once.adds) \cap Range(Parse(r.metaRemove)) = {}
          /\ Range(Parse(r.metaAdd)) \ Range(Parse(r.metaRemove)) \subseteq Range(once.adds)
          /\ Parse(r.metaAdd) \in Seq(Spelled)
      BY <1>1, BulkListsRead, TagsAreSpelled
    <2> QED BY <1>3, <1>4, <2>1, AddedAndRemoved DEF RemoveTags
  <1>7. Range(twice.hidden) = Range(once.hidden)
    BY <1>1, <1>2
  <1> HIDE DEF twice
  <1> QED BY <1>5, <1>6, <1>7 DEF once, twice

-----------------------------------------------------------------------------
(* The map.  An entry is what the last item of the batch's with its key    *)
(* says.                                                                   *)
Replacement(item) ==
    [manual |-> Parse(item.manual),
     adds   |-> RemoveTags(Parse(item.adds), Parse(item.hidden)),
     hidden |-> Parse(item.hidden)]

LEMMA WithEntry ==
    ASSUME NEW entries \in Sidecars, NEW k \in Keys(Paths), NEW entry \in EntrySet
    PROVE  /\ With(entries, k, entry) \in Sidecars
           /\ Entry(With(entries, k, entry), k) = entry
           /\ \A g : g # k => Entry(With(entries, k, entry), g) = Entry(entries, g)
  <1>1. PICK F \in SUBSET Keys(Paths) : entries \in [F -> EntrySet]
    BY DEF Sidecars
  <1>2. With(entries, k, entry) \in [F \cup {k} -> EntrySet]
    BY <1>1 DEF With
  <1>3. With(entries, k, entry) \in Sidecars
    BY <1>1, <1>2 DEF Sidecars
  <1>4. Entry(With(entries, k, entry), k) = entry
    BY DEF With, Entry
  <1>5. \A g : g # k => Entry(With(entries, k, entry), g) = Entry(entries, g)
    BY DEF With, Entry
  <1> QED BY <1>3, <1>4, <1>5

LEMMA ItemsOf ==
    ASSUME NEW r \in RequestSet
    PROVE  /\ Len(r.map) \in Nat /\ DOMAIN r.map = 1 .. Len(r.map)
           /\ r.map \in Seq(Items)
           /\ \A i \in 1 .. Len(r.map) :
                /\ r.map[i].path \in Paths /\ Key[r.map[i].path] \in Keys(Paths)
                /\ r.map[i].manual \in Seq(Spelled)
                /\ r.map[i].adds \in Seq(Spelled)
                /\ r.map[i].hidden \in Seq(Spelled)
                /\ Replacement(r.map[i]) \in EntrySet
  <1>1. r.map \in Seq(Items)
    BY DEF RequestSet
  <1>2. \A item \in Items : /\ item.path \in Paths /\ Key[item.path] \in Keys(Paths)
                            /\ item.manual \in Seq(Spelled)
                            /\ item.adds \in Seq(Spelled) /\ item.hidden \in Seq(Spelled)
    BY DEF Items, Keys
  <1>3. Len(r.map) \in Nat /\ DOMAIN r.map = 1 .. Len(r.map)
    BY <1>1
  <1>4. \A i \in 1 .. Len(r.map) : r.map[i] \in Items
    BY <1>1
  <1>5. ASSUME NEW i \in 1 .. Len(r.map)
        PROVE  Replacement(r.map[i]) \in EntrySet
    <2> DEFINE item == r.map[i]
    <2>1. /\ item.manual \in Seq(Seq(STRING \cup Spelling))
          /\ item.adds \in Seq(Seq(STRING \cup Spelling))
          /\ item.hidden \in Seq(Seq(STRING \cup Spelling))
      BY <1>2, <1>4 DEF Spelled
    <2> HIDE DEF item
    <2>2. /\ Parse(item.manual) \in Seq(Tag) /\ Parse(item.adds) \in Seq(Tag)
          /\ Parse(item.hidden) \in Seq(Tag)
      BY <2>1, ParseReads
    <2>3. RemoveTags(Parse(item.adds), Parse(item.hidden)) \in Seq(Tag)
      BY <2>2, RemoveTagsRange
    <2>4. Replacement(item) \in EntrySet
      BY <2>2, <2>3, TagsAreSpelled DEF Replacement, EntrySet
    <2> QED BY <2>4 DEF item
  <1> QED BY <1>1, <1>2, <1>3, <1>4, <1>5

Names(item, k, batch) == Key[item.path] = k /\ Relevant(item, batch)

LEMMA MapItemIs ==
    ASSUME NEW r \in RequestSet, NEW k
    PROVE  LET i == MapItem(r, k)
           IN /\ i = 0 => \A j \in 1 .. Len(r.map) : ~Names(r.map[j], k, r.batch)
              /\ i # 0 => /\ i \in 1 .. Len(r.map) /\ Names(r.map[i], k, r.batch)
                          /\ \A j \in i + 1 .. Len(r.map) : ~Names(r.map[j], k, r.batch)
  <1> DEFINE n == Len(r.map)
             I == {j \in 1 .. n : Names(r.map[j], k, r.batch)}
             i == MapItem(r, k)
  <1>1. n \in Nat
    BY ItemsOf
  <1>2. i = IF I # {} THEN Max(I) ELSE 0
    BY DEF MapItem, SelectLastInSeq, Names
  <1> HIDE DEF n
  <1>3. CASE I = {}
    BY <1>2, <1>3 DEF n
  <1>4. CASE I # {}
    <2>1. I \subseteq 0 .. n
      BY <1>1
    <2>2. Max(I) \in I /\ \A j \in I : j <= Max(I)
      BY <1>1, <1>4, <2>1, MaxIs
    <2>3. i \in I /\ \A j \in I : j <= i
      BY <1>2, <1>4, <2>2
    <2> HIDE DEF i
    <2>4. i \in 1 .. n /\ i # 0 /\ Names(r.map[i], k, r.batch)
      BY <1>1, <2>3
    <2>5. \A j \in i + 1 .. n : ~Names(r.map[j], k, r.batch)
      BY <1>1, <2>3, <2>4
    <2> QED BY <2>4, <2>5 DEF i, n
  <1> QED BY <1>3, <1>4

LEMMA MappedEntry ==
    ASSUME NEW entries \in Sidecars, NEW r \in RequestSet
    PROVE  LET after == ApplyMap(entries, r.map, r.batch)
           IN /\ after \in Sidecars
              /\ \A k : Entry(after, k) =
                   IF MapItem(r, k) # 0 THEN Replacement(r.map[MapItem(r, k)])
                   ELSE Entry(entries, k)
  <1> DEFINE map == r.map
             batch == r.batch
             n == Len(map)
             g == ApplyMapRun(entries, map, batch)
             item(k) == MapItem(r, k)
  <1>1. /\ n \in Nat /\ DOMAIN map = 1 .. n /\ map \in Seq(Items)
        /\ \A i \in 1 .. n : /\ Key[map[i].path] \in Keys(Paths)
                             /\ Replacement(map[i]) \in EntrySet
    BY ItemsOf
  <1>7. \A k : /\ item(k) = 0 => \A j \in 1 .. n : ~Names(map[j], k, batch)
               /\ item(k) # 0 => /\ item(k) \in 1 .. n /\ Names(map[item(k)], k, batch)
                                 /\ \A j \in item(k) + 1 .. n : ~Names(map[j], k, batch)
    BY MapItemIs
  <1> HIDE DEF map, batch, item
  <1>2. \A i \in 1 .. n : \A s : ApplyMapOf(s, map[i], batch) =
          IF Relevant(map[i], batch)
          THEN With(s, Key[map[i].path], Replacement(map[i])) ELSE s
    BY DEF ApplyMapOf, ApplyMapEntry, Replacement
  <1>3. \A i \in 1 .. n, s \in Sidecars : ApplyMapOf(s, map[i], batch) \in Sidecars
    BY <1>1, <1>2, WithEntry
  <1>4. /\ g \in [0 .. n -> Sidecars] /\ g[0] = entries
        /\ \A i \in 1 .. n : g[i] = ApplyMapOf(g[i - 1], map[i], batch)
        /\ ApplyMap(entries, map, batch) = g[n]
    <2>1. \A i \in DOMAIN map, s \in Sidecars : ApplyMapOf(s, map[i], batch) \in Sidecars
      BY <1>1, <1>3
    <2> QED BY <1>1, <2>1, ApplyMapRuns
  <1> HIDE DEF g, n
  <1>5. n \in 0 .. n
    BY <1>1
  <1>6. ASSUME NEW k
        PROVE  Entry(g[n], k) = IF item(k) # 0 THEN Replacement(map[item(k)])
                                ELSE Entry(entries, k)
    <2> DEFINE Named(j) == Names(map[j], k, batch)
               G == {i \in 0 .. n :
                       /\ (\A j \in 1 .. i : ~Named(j)) => Entry(g[i], k) = Entry(entries, k)
                       /\ \A j \in 1 .. i : Named(j) /\ (\A m \in j + 1 .. i : ~Named(m))
                                              => Entry(g[i], k) = Replacement(map[j])}
    <2>1. 0 \in G
      BY <1>1, <1>4
    <2>2. ASSUME NEW i \in 1 .. n, i - 1 \in G PROVE i \in G
      <3> DEFINE s == g[i - 1]
      <3>1. i \in 0 .. n /\ i - 1 \in 0 .. n /\ i \in 1 .. i /\ s \in Sidecars
        BY <1>1, <1>4
      <3>2. g[i] = IF Relevant(map[i], batch)
                   THEN With(s, Key[map[i].path], Replacement(map[i])) ELSE s
        BY <1>2, <1>4
      <3>3. /\ (\A j \in 1 .. i - 1 : ~Named(j)) => Entry(s, k) = Entry(entries, k)
            /\ \A j \in 1 .. i - 1 : Named(j) /\ (\A m \in j + 1 .. i - 1 : ~Named(m))
                                       => Entry(s, k) = Replacement(map[j])
        BY <2>2
      <3>4. Entry(g[i], k) = IF Named(i) THEN Replacement(map[i]) ELSE Entry(s, k)
        BY <1>1, <3>1, <3>2, WithEntry DEF Names
      <3> HIDE DEF s, G, Named
      <3>5. CASE Named(i)
        <4>1. ASSUME NEW j \in 1 .. i, \A m \in j + 1 .. i : ~Named(m) PROVE j = i
          <5>1. SUFFICES ASSUME j # i PROVE FALSE
            OBVIOUS
          <5>2. i \in j + 1 .. i
            BY <1>1, <3>1, <5>1
          <5> QED BY <3>5, <4>1, <5>2
        <4> QED BY <3>1, <3>4, <3>5, <4>1 DEF G
      <3>6. CASE ~Named(i)
        <4>1. Entry(g[i], k) = Entry(s, k)
          BY <3>4, <3>6
        <4>2. \A j \in 1 .. i - 1 : j \in 1 .. i
          BY <1>1
        <4>3. (\A j \in 1 .. i : ~Named(j)) => Entry(g[i], k) = Entry(entries, k)
          BY <3>3, <4>1, <4>2
        <4>4. ASSUME NEW j \in 1 .. i, Named(j), \A m \in j + 1 .. i : ~Named(m)
              PROVE  Entry(g[i], k) = Replacement(map[j])
          <5>1. j # i
            BY <3>6, <4>4
          <5>2. j \in 1 .. i - 1
            BY <1>1, <5>1
          <5>3. \A m \in j + 1 .. i - 1 : m \in j + 1 .. i
            BY <1>1
          <5> QED BY <3>3, <4>1, <4>4, <5>2, <5>3
        <4> QED BY <3>1, <4>3, <4>4 DEF G
      <3> QED BY <3>5, <3>6
    <2> HIDE DEF G
    <2>3. \A i \in 0 .. n : i \in G
      BY <1>1, <2>1, <2>2, Induction
    <2>4. /\ (\A j \in 1 .. n : ~Named(j)) => Entry(g[n], k) = Entry(entries, k)
          /\ \A j \in 1 .. n : Named(j) /\ (\A m \in j + 1 .. n : ~Named(m))
                                 => Entry(g[n], k) = Replacement(map[j])
      BY <1>5, <2>3 DEF G
    <2> QED BY <1>7, <2>4
  <1> QED BY <1>4, <1>5, <1>6 DEF map, batch, item

(* A whole preview's edits.                                                *)
EditedEntries(entries, r) == ApplyBulk(ApplyMap(entries, r.map, r.batch), r)

LEMMA EditedEntry ==
    ASSUME NEW entries \in Sidecars, NEW r \in RequestSet, BulkReads(r)
    PROVE  /\ EditedEntries(entries, r) \in Sidecars
           /\ \A k : Entry(EditedEntries(entries, r), k) =
                LET mapped == Entry(ApplyMap(entries, r.map, r.batch), k)
                IN IF k \in Keys(r.batch) THEN Bulk(mapped, r) ELSE mapped
  <1> DEFINE mid == ApplyMap(entries, r.map, r.batch)
             after == EditedEntries(entries, r)
  <1>1. mid \in Sidecars
    BY MappedEntry
  <1> HIDE DEF mid
  <1>2. PICK F \in SUBSET Keys(Paths) : mid \in [F -> EntrySet]
    BY <1>1 DEF Sidecars
  <1> DEFINE B == Keys(r.batch)
  <1>3. B \subseteq Keys(Paths)
    BY RequestAssumption DEF RequestSet, Keys
  <1>4. after = [k \in F \cup B |-> IF k \in B THEN Bulk(Entry(mid, k), r) ELSE mid[k]]
    BY <1>2 DEF EditedEntries, ApplyBulk, mid
  <1>5. \A k \in B : Bulk(Entry(mid, k), r) \in EntrySet
    BY <1>1, EntryIsTyped, BulkFields
  <1> HIDE DEF B
  <1>6. after \in [F \cup B -> EntrySet]
    BY <1>2, <1>4, <1>5
  <1>7. after \in Sidecars
    BY <1>2, <1>3, <1>6 DEF Sidecars
  <1>8. \A k : Entry(after, k) = IF k \in B THEN Bulk(Entry(mid, k), r) ELSE Entry(mid, k)
    BY <1>2, <1>4 DEF Entry
  <1> QED BY <1>7, <1>8 DEF mid, B

(* Edits made again change nothing a preview shows of the batch.           *)
LEMMA EditedAgain ==
    ASSUME NEW entries \in Sidecars, NEW r \in RequestSet, BulkReads(r), NEW f \in r.batch
    PROVE  Resolved(EditedEntries(EditedEntries(entries, r), r), f) = Resolved(EditedEntries(entries, r), f)
  <1> DEFINE once == EditedEntries(entries, r)
             twice == EditedEntries(once, r)
             k == Key[f]
             x == Entry(ApplyMap(entries, r.map, r.batch), k)
             y == Entry(ApplyMap(once, r.map, r.batch), k)
  <1>1. once \in Sidecars /\ Entry(once, k) = Bulk(x, r) /\ x \in EntrySet
    <2>1. k \in Keys(r.batch)
      BY DEF Keys
    <2> QED BY <2>1, EditedEntry, EntryIsTyped, MappedEntry
  <1>2. Entry(twice, k) = Bulk(y, r)
    <2>1. k \in Keys(r.batch)
      BY DEF Keys
    <2> QED BY <1>1, <2>1, EditedEntry
  <1>3. y = x \/ y = Bulk(x, r)
    <2>1. CASE MapItem(r, k) # 0
      BY <1>1, <2>1, MappedEntry
    <2>2. CASE MapItem(r, k) = 0
      BY <1>1, <2>2, MappedEntry
    <2> QED BY <2>1, <2>2
  <1> HIDE DEF once, twice, x, y
  <1>4. /\ Entry(twice, k).manual = Entry(once, k).manual
        /\ Entry(twice, k).adds = Entry(once, k).adds
        /\ Range(Entry(twice, k).hidden) = Range(Entry(once, k).hidden)
    BY <1>1, <1>2, <1>3, BulkAgain
  <1>5. MetaTags(twice, f) = MetaTags(once, f)
    BY <1>4 DEF MetaTags
  <1>6. Resolved(twice, f) = Resolved(once, f)
    BY <1>4, <1>5 DEF Resolved
  <1> QED BY <1>6 DEF once, twice

(***************************************************************************)
(* Part 6: what was asked for and what the sidecar holds. A list that may  *)
(* hold other spellings than the normal one is not sure to lose a tag.     *)
(***************************************************************************)
LEMMA TagsOfList ==
    ASSUME NEW list \in Seq(Spelled)
    PROVE  /\ \A t : t \in Tags(list) <=>
                /\ t # << >>
                /\ \E x \in Range(list) : NormalizeTag(x, TagSize) = t
           /\ Plain(list) <=> \A x \in Range(list) : NormalizeTag(x, TagSize) = x
           /\ \A t \in Tag : t # << >> /\ NormalizeTag(t, TagSize) = t
  <1>1. \A t \in Tag : t # << >> /\ NormalizeTag(t, TagSize) = t
    BY LimitAssumption, NormalStays DEF Tag
  <1>2. \A t : t \in Tags(list) <=>
                /\ t # << >>
                /\ \E x \in Range(list) : NormalizeTag(x, TagSize) = t
    BY DEF Tags, Range
  <1>3. Plain(list) <=> \A x \in Range(list) : NormalizeTag(x, TagSize) = x
    BY DEF Plain, Range
  <1> QED BY <1>1, <1>2, <1>3

(* A list to which tags were added and from which others were removed.     *)
Became(list, after, add, remove) ==
    /\ list \in Seq(Spelled) /\ after \in Seq(Spelled)
    /\ add \subseteq Tag /\ remove \subseteq Tag
    /\ Range(after) = (Range(list) \cup add) \ remove

LEMMA ListEdited ==
    ASSUME NEW list, NEW after, NEW add, NEW remove, Became(list, after, add, remove)
    PROVE  /\ (Tags(list) \cup add) \ remove \subseteq Tags(after)
           /\ Tags(after) \subseteq Tags(list) \cup add
           /\ Plain(after) => Plain(list) /\ Tags(after) \cap remove = {}
  <1> USE DEF Became
  <1> DEFINE Norm(x) == NormalizeTag(x, TagSize)
  <1>1. /\ \A t : t \in Tags(list) <=> t # << >> /\ \E x \in Range(list) : Norm(x) = t
        /\ \A t : t \in Tags(after) <=> t # << >> /\ \E x \in Range(after) : Norm(x) = t
        /\ Plain(list) <=> \A x \in Range(list) : Norm(x) = x
        /\ Plain(after) <=> \A x \in Range(after) : Norm(x) = x
        /\ \A t \in Tag : t # << >> /\ Norm(t) = t
    BY TagsOfList
  <1> HIDE DEF Norm
  <1>2. ASSUME NEW t \in (Tags(list) \cup add) \ remove PROVE t \in Tags(after)
    <2>1. CASE t \in add
      BY <1>1, <1>2, <2>1
    <2>2. CASE t \in Tags(list)
      <3>1. PICK x \in Range(list) : Norm(x) = t
        BY <1>1, <2>2
      <3>2. x \notin remove
        BY <1>1, <1>2, <3>1
      <3> QED BY <1>1, <2>2, <3>1, <3>2
    <2> QED BY <1>2, <2>1, <2>2
  <1>3. ASSUME NEW t \in Tags(after) PROVE t \in Tags(list) \cup add
    <2>1. PICK x \in Range(after) : Norm(x) = t /\ t # << >>
      BY <1>1, <1>3
    <2>2. CASE x \in add
      BY <1>1, <2>1, <2>2
    <2>3. CASE x \in Range(list)
      BY <1>1, <2>1, <2>3
    <2> QED BY <2>1, <2>2, <2>3
  <1>4. ASSUME Plain(after) PROVE Plain(list) /\ Tags(after) \cap remove = {}
    <2>1. \A x \in Range(list) : Norm(x) = x
      BY <1>1, <1>4
    <2>2. ASSUME NEW t \in Tags(after) PROVE t \notin remove
      BY <1>1, <1>4, <2>2
    <2> QED BY <1>1, <2>1, <2>2
  <1> QED BY <1>2, <1>3, <1>4

Agrees(entry, t, manual, meta) ==
    /\ manual = "on"                        => t \in Tags(entry.manual)
    /\ manual = "off" /\ Plain(entry.manual) => t \notin Tags(entry.manual)
    /\ meta = "on" /\ Plain(entry.adds)     => t \in Tags(entry.adds) /\ t \notin Range(entry.hidden)
    /\ meta = "off"                         => t \in Range(entry.hidden)

LEMMA BulkAgrees ==
    ASSUME NEW entry \in EntrySet, NEW r \in RequestSet, BulkReads(r), NEW t, NEW manual, NEW meta,
           Agrees(entry, t, manual, meta)
    PROVE  Agrees(Bulk(entry, r), t, ManualAfter(manual, t, r), MetaAfter(meta, t, r))
  <1> DEFINE after == Bulk(entry, r)
             add == Tags(r.add)
             remove == Tags(r.remove)
             metaAdd == Tags(r.metaAdd)
             metaRemove == Tags(r.metaRemove)
  <1>1. /\ after \in EntrySet
        /\ Range(after.manual) = (Range(entry.manual) \cup add) \ remove
        /\ Range(after.adds) = (Range(entry.adds) \cup metaAdd) \ metaRemove
        /\ Range(after.hidden) =
             (((Range(entry.hidden) \ add) \cup remove) \ metaAdd) \cup metaRemove
    BY BulkRanges
  <1>2. add \subseteq Tag /\ remove \subseteq Tag /\ metaAdd \subseteq Tag /\ metaRemove \subseteq Tag
    <2>1. /\ r.add \in Seq(Seq(STRING)) /\ r.remove \in Seq(Seq(STRING))
          /\ r.metaAdd \in Seq(Seq(STRING)) /\ r.metaRemove \in Seq(Seq(STRING))
      BY DEF RequestSet, Csvs
    <2> QED BY <2>1, ParseReads
  <1> HIDE DEF after
  <1>3. /\ entry.manual \in Seq(Spelled) /\ entry.adds \in Seq(Spelled)
        /\ after.manual \in Seq(Spelled) /\ after.adds \in Seq(Spelled)
    BY <1>1 DEF EntrySet
  <1>4. /\ ManualAfter(manual, t, r) = IF t \in remove THEN "off"
                                       ELSE IF t \in add THEN "on" ELSE manual
        /\ MetaAfter(meta, t, r) = IF t \in metaRemove THEN "off"
                                   ELSE IF t \in metaAdd THEN "on"
                                   ELSE IF t \in remove THEN "off"
                                   ELSE IF t \in add /\ meta = "off" THEN "unsaid" ELSE meta
    BY DEF ManualAfter, MetaAfter
  <1> HIDE DEF add, remove, metaAdd, metaRemove
  <1>5. /\ (Tags(entry.manual) \cup add) \ remove \subseteq Tags(after.manual)
        /\ Tags(after.manual) \subseteq Tags(entry.manual) \cup add
        /\ Plain(after.manual) => Plain(entry.manual) /\ Tags(after.manual) \cap remove = {}
    <2>1. Became(entry.manual, after.manual, add, remove)
      BY <1>1, <1>2, <1>3 DEF Became
    <2> QED BY <2>1, ListEdited
  <1>6. /\ (Tags(entry.adds) \cup metaAdd) \ metaRemove \subseteq Tags(after.adds)
        /\ Plain(after.adds) => Plain(entry.adds)
    <2>1. Became(entry.adds, after.adds, metaAdd, metaRemove)
      BY <1>1, <1>2, <1>3 DEF Became
    <2> QED BY <2>1, ListEdited
  <1> DEFINE manualIs2 == ManualAfter(manual, t, r)
             metaIs2 == MetaAfter(meta, t, r)
  <1>7. /\ manual = "on"  => t \in Tags(entry.manual)
        /\ manual = "off" /\ Plain(entry.manual) => t \notin Tags(entry.manual)
        /\ meta = "on" /\ Plain(entry.adds) => t \in Tags(entry.adds) /\ t \notin Range(entry.hidden)
        /\ meta = "off" => t \in Range(entry.hidden)
    BY DEF Agrees
  <1> HIDE DEF manualIs2, metaIs2
  <1>8. /\ manualIs2 = "on" => t \in Tags(after.manual)
        /\ manualIs2 = "off" /\ Plain(after.manual) => t \notin Tags(after.manual)
    BY <1>4, <1>5, <1>7 DEF manualIs2
  <1>9. /\ metaIs2 = "on" /\ Plain(after.adds) => t \in Tags(after.adds) /\ t \notin Range(after.hidden)
        /\ metaIs2 = "off" => t \in Range(after.hidden)
    BY <1>1, <1>4, <1>6, <1>7 DEF metaIs2
  <1> QED BY <1>8, <1>9 DEF Agrees, after, manualIs2, metaIs2

LEMMA TagsArePlain ==
    ASSUME NEW list \in Seq(Tag)
    PROVE  Plain(list) /\ Tags(list) = Range(list)
  <1>1. list \in Seq(Spelled)
    BY TagsAreSpelled
  <1>2. Range(list) \subseteq Tag
    BY ElementsOf
  <1>3. Plain(list)
    BY <1>1, <1>2, TagsOfList
  <1> QED BY <1>3, TagsStay

LEMMA MapAgrees ==
    ASSUME NEW entries \in Sidecars, NEW r \in RequestSet, MapReads(r.map, r.batch),
           NEW k, NEW t, NEW manual, NEW meta,
           Agrees(Entry(entries, k), t, manual, meta)
    PROVE  Agrees(Entry(ApplyMap(entries, r.map, r.batch), k), t,
                  MappedManual(manual, k, t, r), MappedMeta(meta, k, t, r))
  <1> DEFINE i == MapItem(r, k)
             after == Entry(ApplyMap(entries, r.map, r.batch), k)
  <1>1. CASE i = 0
    <2>1. after = Entry(entries, k)
      BY <1>1, MappedEntry
    <2>2. MappedManual(manual, k, t, r) = manual /\ MappedMeta(meta, k, t, r) = meta
      BY <1>1 DEF MappedManual, MappedMeta
    <2> QED BY <2>1, <2>2
  <1>2. CASE i # 0
    <2> DEFINE item == r.map[i]
    <2>1. i \in 1 .. Len(r.map) /\ Relevant(item, r.batch)
      BY <1>2, MapItemIs DEF Names
    <2>2. after = Replacement(item)
      BY <1>2, MappedEntry
    <2>3. /\ item.manual \in Seq(Seq(STRING \cup Spelling))
          /\ item.adds \in Seq(Seq(STRING \cup Spelling))
          /\ item.hidden \in Seq(Seq(STRING \cup Spelling)) /\ i \in DOMAIN r.map
      BY <2>1, ItemsOf DEF Spelled
    <2>4. /\ ~Overflowed(Parse(item.manual)) /\ ~Overflowed(Parse(item.adds))
          /\ ~Overflowed(Parse(item.hidden))
      BY <2>1, <2>3 DEF MapReads
    <2>5. /\ MappedManual(manual, k, t, r) = IF t \in Tags(item.manual) THEN "on" ELSE "off"
          /\ MappedMeta(meta, k, t, r) = IF t \in Tags(item.hidden) THEN "off"
                                         ELSE IF t \in Tags(item.adds) THEN "on" ELSE "unsaid"
      BY <1>2 DEF MappedManual, MappedMeta
    <2> HIDE DEF item, after
    <2>6. /\ Parse(item.manual) \in Seq(Tag) /\ Range(Parse(item.manual)) = Tags(item.manual)
          /\ Range(Parse(item.hidden)) = Tags(item.hidden)
          /\ Parse(item.adds) \in Seq(Tag) /\ Range(Parse(item.adds)) = Tags(item.adds)
      BY <2>3, <2>4, ParseReads
    <2>7. /\ after.manual \in Seq(Tag) /\ after.adds \in Seq(Tag)
          /\ Range(after.manual) = Tags(item.manual) /\ Range(after.hidden) = Tags(item.hidden)
          /\ Range(after.adds) = Tags(item.adds) \ Tags(item.hidden)
      BY <2>2, <2>6, RemoveTagsRange DEF Replacement
    <2>8. Tags(after.manual) = Tags(item.manual) /\ Tags(after.adds) = Tags(item.adds) \ Tags(item.hidden)
      BY <2>7, TagsArePlain
    <2> QED BY <2>5, <2>7, <2>8 DEF Agrees, after
  <1> QED BY <1>1, <1>2

(* The panel: what was typed is one of the lists, whatever its spelling.   *)
LEMMA PanelAgrees ==
    ASSUME NEW entry \in EntrySet, NEW tags \in Seq(Spelled), NEW t, NEW manual, NEW meta,
           Agrees(entry, t, manual, meta)
    PROVE  /\ PanelEdit(entry, "manual", tags) \in EntrySet
           /\ PanelEdit(entry, "adds", tags) \in EntrySet
           /\ Agrees(PanelEdit(entry, "manual", tags), t,
                     IF t \in Tags(tags) THEN "on" ELSE "off", meta)
           /\ Agrees(PanelEdit(entry, "adds", tags), t, manual,
                     IF t \in Tags(tags) THEN "on" ELSE IF meta = "off" THEN "off" ELSE "unsaid")
  <1> DEFINE m == PanelEdit(entry, "manual", tags)
             a == PanelEdit(entry, "adds", tags)
  <1>1. /\ entry.manual \in Seq(Spelled) /\ entry.adds \in Seq(Spelled) /\ entry.hidden \in Seq(Tag)
        /\ RemoveTags(entry.hidden, tags) \in Seq(Tag)
        /\ Range(RemoveTags(entry.hidden, tags)) = Range(entry.hidden) \ Range(tags)
    BY RemoveTagsRange DEF EntrySet
  <1>2. m \in EntrySet /\ m.manual = tags /\ m.adds = entry.adds /\ m.hidden = entry.hidden
    BY DEF PanelEdit, EntrySet
  <1>3. a \in EntrySet /\ a.manual = entry.manual /\ a.adds = tags
        /\ Range(a.hidden) = Range(entry.hidden) \ Range(tags)
    BY <1>1 DEF PanelEdit, EntrySet
  <1> HIDE DEF m, a
  <1>4. /\ Plain(tags) /\ t \in Tags(tags) => t \in Range(tags)
        /\ t \in Range(entry.hidden) /\ t \notin Tags(tags) => t \notin Range(tags)
    <2>1. Range(entry.hidden) \subseteq Tag
      BY <1>1, ElementsOf
    <2> QED BY <2>1, TagsOfList
  <1>5. Agrees(m, t, IF t \in Tags(tags) THEN "on" ELSE "off", meta)
    BY <1>2 DEF Agrees
  <1>6. Agrees(a, t, manual, IF t \in Tags(tags) THEN "on" ELSE IF meta = "off" THEN "off" ELSE "unsaid")
    BY <1>3, <1>4 DEF Agrees
  <1> QED BY <1>2, <1>3, <1>5, <1>6 DEF m, a

(***************************************************************************)
(* Part 7: the tags of a preview.  The inductive invariant: in every copy  *)
(* of the sidecar - on disk, in the last preview's memory, in the panel's  *)
(* - what was last asked of a tag is what the lists say, as far as they    *)
(* are in normal spelling; and the copy in the preview's memory is what    *)
(* its request made of some sidecar.                                       *)
(***************************************************************************)
Agree(copy) ==
    /\ copy.entries \in Sidecars
    /\ \A k \in Keys(Files), t \in AllTags :
         Agrees(Entry(copy.entries, k), t, copy.manualIs[k][t], copy.metaIs[k][t])

MadeByRequest ==
    /\ BulkReads(request)
    /\ \E before \in Sidecars : root.entries = EditedEntries(before, request)

PreviewInv ==
    /\ Agree(disk) /\ Agree(root) /\ Agree(panel)
    /\ request \in RequestSet
    /\ DOMAIN shown \subseteq Files
    /\ phase \in {"edited", "saved", "shown", "unresolved"} => MadeByRequest
    /\ phase = "shown" =>
         /\ shown = [f \in request.batch |-> Resolved(root.entries, f)]
         /\ \A f \in request.batch : Resolves(root.entries, f)
    /\ phase = "unresolved" => \E f \in request.batch : ~Resolves(root.entries, f)

LEMMA NothingAgrees == Agree(Nothing)
  <1>1. << >> \in [{} -> EntrySet] /\ DOMAIN << >> = {}
    OBVIOUS
  <1>2. << >> \in Sidecars
    BY <1>1 DEF Sidecars
  <1>3. Nothing.entries = << >>
    BY DEF Nothing
  <1>4. \A k \in Keys(Files), t \in AllTags :
          Nothing.manualIs[k][t] = "unsaid" /\ Nothing.metaIs[k][t] = "unsaid"
    BY DEF Nothing, Unsaid
  <1> QED BY <1>2, <1>3, <1>4 DEF Agree, Agrees

(* What a preview makes of a copy of the sidecar.                          *)
LEMMA EditedAgrees ==
    ASSUME NEW copy, Agree(copy), NEW r \in RequestSet, MapReads(r.map, r.batch), BulkReads(r)
    PROVE  /\ Edited(copy, r).entries = EditedEntries(copy.entries, r)
           /\ Agree(Edited(copy, r))
  <1> DEFINE after == Edited(copy, r)
             entries == copy.entries
             mid == ApplyMap(entries, r.map, r.batch)
  <1>1. /\ after.entries = EditedEntries(entries, r)
        /\ after.manualIs = Decided(copy.manualIs, MappedManual, ManualAfter, r)
        /\ after.metaIs = Decided(copy.metaIs, MappedMeta, MetaAfter, r)
    BY DEF Edited, EditedEntries
  <1>2. entries \in Sidecars
    BY DEF Agree
  <1>3. EditedEntries(entries, r) \in Sidecars
    BY <1>2, EditedEntry
  <1>4. ASSUME NEW k \in Keys(Files), NEW t \in AllTags
        PROVE  Agrees(Entry(EditedEntries(entries, r), k), t, after.manualIs[k][t], after.metaIs[k][t])
    <2> DEFINE m0 == copy.manualIs[k][t]
               a0 == copy.metaIs[k][t]
               m1 == MappedManual(m0, k, t, r)
               a1 == MappedMeta(a0, k, t, r)
    <2>1. /\ after.manualIs[k][t] = IF k \in Keys(r.batch) THEN ManualAfter(m1, t, r) ELSE m1
          /\ after.metaIs[k][t] = IF k \in Keys(r.batch) THEN MetaAfter(a1, t, r) ELSE a1
      BY <1>1 DEF Decided
    <2>2. Agrees(Entry(entries, k), t, m0, a0)
      BY DEF Agree
    <2>3. Agrees(Entry(mid, k), t, m1, a1)
      BY <1>2, <2>2, MapAgrees
    <2>4. Entry(mid, k) \in EntrySet
      BY <1>2, MappedEntry, EntryIsTyped
    <2>5. Entry(EditedEntries(entries, r), k) =
            IF k \in Keys(r.batch) THEN Bulk(Entry(mid, k), r) ELSE Entry(mid, k)
      BY <1>2, EditedEntry
    <2> HIDE DEF m0, a0, m1, a1, mid, after
    <2>6. CASE k \in Keys(r.batch)
      BY <2>1, <2>3, <2>4, <2>5, <2>6, BulkAgrees
    <2>7. CASE k \notin Keys(r.batch)
      BY <2>1, <2>3, <2>5, <2>7
    <2> QED BY <2>6, <2>7
  <1> HIDE DEF after, entries
  <1>5. Agree(after)
    BY <1>1, <1>3, <1>4 DEF Agree
  <1> QED BY <1>1, <1>5 DEF after, entries

LEMMA TypedAreSpelled ==
    ASSUME NEW csv \in Csvs
    PROVE  AppendCsvTags(csv) \in Seq(Spelled)
  <1> DEFINE trimmed == [i \in DOMAIN csv |-> Trim(csv[i], Blanks)]
             kept == Without(trimmed, {<< >>})
             T == Seq(STRING)
  <1>1. csv \in Seq(T)
    BY DEF Csvs
  <1>2. \A i \in DOMAIN csv : csv[i] \in Seq(STRING)
    BY <1>1
  <1>3. \A i \in DOMAIN csv : Trim(csv[i], Blanks) \in T
    BY <1>2, TrimIs
  <1> HIDE DEF T
  <1>4. trimmed \in Seq(T)
    BY <1>1, <1>3
  <1> HIDE DEF trimmed
  <1>5. kept \in Seq(T)
    BY <1>4, WithoutRange
  <1>6. << >> \in Seq(T)
    OBVIOUS
  <1>7. AddTags(<< >>, kept) \in Seq(T)
    BY <1>5, <1>6, AddTagsRange
  <1> QED BY <1>7, TagsAreSpelled DEF AppendCsvTags, trimmed, kept, T, Csvs

(* What the panel makes of one.                                            *)
LEMMA PanelEditedAgrees ==
    ASSUME NEW copy, Agree(copy), NEW f \in Files, NEW list \in {"manual", "adds"},
           NEW tags \in Seq(Spelled)
    PROVE  Agree(PanelEdited(copy, f, list, tags))
  <1> DEFINE after == PanelEdited(copy, f, list, tags)
             entries == copy.entries
             key == Key[f]
             entry == Entry(entries, key)
             edited == PanelEdit(entry, list, tags)
  <1>1. /\ after.entries = With(entries, key, edited)
        /\ after.manualIs = IF list = "manual" THEN Asked(copy.manualIs, key, list, tags)
                            ELSE copy.manualIs
        /\ after.metaIs = IF list = "adds" THEN Asked(copy.metaIs, key, list, tags)
                          ELSE copy.metaIs
    BY DEF PanelEdited
  <1>2. key \in Keys(Paths)
    BY RequestAssumption DEF Keys
  <1>3. entries \in Sidecars /\ entry \in EntrySet
    BY EntryIsTyped DEF Agree
  <1>4. \A k \in Keys(Files), t \in AllTags :
          Agrees(Entry(entries, k), t, copy.manualIs[k][t], copy.metaIs[k][t])
    BY DEF Agree
  <1> HIDE DEF after, entries, key
  <1>5. edited \in EntrySet
    <2>1. \E t, manual, meta : Agrees(entry, t, manual, meta)
      <3>1. Agrees(entry, << >>, "unsaid", "unsaid")
        BY DEF Agrees
      <3> QED BY <3>1
    <2> QED BY <1>3, <2>1, PanelAgrees
  <1>6. /\ With(entries, key, edited) \in Sidecars
        /\ Entry(With(entries, key, edited), key) = edited
        /\ \A g : g # key => Entry(With(entries, key, edited), g) = Entry(entries, g)
    BY <1>2, <1>3, <1>5, WithEntry
  <1>7. ASSUME NEW k \in Keys(Files), NEW t \in AllTags
        PROVE  Agrees(Entry(after.entries, k), t, after.manualIs[k][t], after.metaIs[k][t])
    <2> DEFINE m0 == copy.manualIs[k][t]
               a0 == copy.metaIs[k][t]
               m1 == IF t \in Tags(tags) THEN "on" ELSE "off"
               a1 == IF t \in Tags(tags) THEN "on" ELSE IF a0 = "off" THEN "off" ELSE "unsaid"
    <2>1. Agrees(Entry(entries, k), t, m0, a0)
      BY <1>4
    <2>2. CASE k # key
      <3>1. after.manualIs[k][t] = m0 /\ after.metaIs[k][t] = a0
        BY <1>1, <2>2 DEF Asked
      <3>2. Entry(after.entries, k) = Entry(entries, k)
        BY <1>1, <1>6, <2>2
      <3> QED BY <2>1, <3>1, <3>2
    <2>3. CASE k = key
      <3>1. Entry(after.entries, k) = edited
        BY <1>1, <1>6, <2>3
      <3>2. Agrees(entry, t, m0, a0)
        BY <2>1, <2>3
      <3>3. /\ Agrees(PanelEdit(entry, "manual", tags), t, m1, a0)
            /\ Agrees(PanelEdit(entry, "adds", tags), t, m0, a1)
        BY <1>3, <3>2, PanelAgrees
      <3>4. CASE list = "manual"
        <4>1. after.manualIs[k][t] = m1 /\ after.metaIs[k][t] = a0
          BY <1>1, <2>3, <3>4 DEF Asked
        <4> QED BY <3>1, <3>3, <3>4, <4>1
      <3>5. CASE list = "adds"
        <4>1. after.manualIs[k][t] = m0 /\ after.metaIs[k][t] = a1
          BY <1>1, <2>3, <3>5 DEF Asked
        <4> QED BY <3>1, <3>3, <3>5, <4>1
      <3> QED BY <3>4, <3>5
    <2> QED BY <2>2, <2>3
  <1> HIDE DEF edited
  <1>8. Agree(after)
    BY <1>1, <1>6, <1>7 DEF Agree
  <1> QED BY <1>8 DEF after

LEMMA TornAgrees ==
    ASSUME NEW copy, Agree(copy), NEW contended, NEW file \in Torn(copy, contended)
    PROVE  Agree(file)
  BY NothingAgrees DEF Torn

(* The sidecar as a map: requests like any other.                          *)
LEMMA OwnMapsAreMaps ==
    ASSUME Agree(disk), NEW map \in OwnMaps, NEW r \in Requests
    PROVE  [r EXCEPT !.map = map] \in RequestSet
  <1> DEFINE here == disk.entries
             K == DOMAIN here
             Spellings == {path \in [K -> Paths] : \A k \in K : Key[path[k]] = k}
             Item(path, k) == [path |-> path[k], manual |-> here[k].manual,
                               adds |-> here[k].adds, hidden |-> here[k].hidden]
  <1>1. PICK keys \in SetToSeqs(K), path \in Spellings :
          map = [i \in DOMAIN keys |-> Item(path, keys[i])]
    BY DEF OwnMaps
  <1>2. PICK F \in SUBSET Keys(Paths) : here \in [F -> EntrySet]
    BY DEF Agree, Sidecars
  <1>3. K = F /\ \A k \in K : here[k] \in EntrySet
    BY <1>2
  <1>4. IsFiniteSet(K)
    <2>1. IsFiniteSet(Keys(Paths))
      <3> DEFINE image == [p \in Paths |-> Key[p]]
      <3>1. IsFiniteSet(Paths)
        BY RequestAssumption
      <3>2. image \in Surjection(Paths, Keys(Paths))
        BY DEF Surjection, Keys
      <3> HIDE DEF image
      <3> QED BY <3>1, <3>2, FS_Surjection
    <2> QED BY <1>3, <2>1, FS_Subset
  <1>5. Cardinality(K) \in Nat
    BY <1>4, FS_CardinalityType
  <1>6. keys \in [1 .. Cardinality(K) -> K]
    BY DEF SetToSeqs
  <1>7. \A k \in K : path[k] \in Paths
    OBVIOUS
  <1> HIDE DEF K
  <1>8. \A k \in K : Item(path, k) \in Items
    <2> TAKE k \in K
    <2> DEFINE e == here[k]
    <2>1. e \in EntrySet /\ path[k] \in Paths
      BY <1>3, <1>7
    <2> HIDE DEF e
    <2>2. /\ e.manual \in Seq(Spelled) /\ e.adds \in Seq(Spelled)
          /\ e.hidden \in Seq(Spelled)
      BY <2>1, TagsAreSpelled DEF EntrySet
    <2>3. [path |-> path[k], manual |-> e.manual, adds |-> e.adds, hidden |-> e.hidden] \in Items
      BY <2>1, <2>2 DEF Items
    <2> QED BY <2>3 DEF e
  <1> HIDE DEF Item, here
  <1>9. map \in Seq(Items)
    <2>1. DOMAIN keys = 1 .. Cardinality(K) /\ \A i \in 1 .. Cardinality(K) : keys[i] \in K
      BY <1>6
    <2>2. map \in [1 .. Cardinality(K) -> Items]
      BY <1>1, <1>8, <2>1
    <2> QED BY <1>5, <2>2
  <1>10. r \in [batch : SUBSET Files,
                map : Seq([path : Paths, manual : Csvs, adds : Csvs, hidden : Csvs]),
                add : Csvs, remove : Csvs, metaAdd : Csvs, metaRemove : Csvs]
    BY RequestAssumption
  <1> QED BY <1>9, <1>10 DEF RequestSet

LEMMA RequestsAreTyped == Requests \subseteq RequestSet
  <1> DEFINE R == [path : Paths, manual : Csvs, adds : Csvs, hidden : Csvs]
  <1>1. R \subseteq Items
    BY TagsAreSpelled DEF Items
  <1> HIDE DEF R
  <1>2. \A s \in Seq(R) : s \in Seq(Items)
    <2> TAKE s \in Seq(R)
    <2>1. Range(s) \subseteq Items
      BY <1>1, ElementsOf
    <2> QED BY <2>1, ListWithin
  <1>3. Requests \subseteq [batch : SUBSET Files, map : Seq(R),
                            add : Csvs, remove : Csvs, metaAdd : Csvs, metaRemove : Csvs]
    BY RequestAssumption DEF R
  <1> QED BY <1>2, <1>3 DEF RequestSet

LEMMA PreviewStarts == Init => PreviewInv
  <1> SUFFICES ASSUME Init PROVE PreviewInv
    OBVIOUS
  <1>1. NoRequest \in RequestSet
    BY DEF NoRequest, RequestSet, Csvs
  <1>2. DOMAIN << >> \subseteq Files
    OBVIOUS
  <1> QED BY <1>1, <1>2, NothingAgrees DEF Init, PreviewInv

LEMMA BeginSteps ==
    ASSUME PreviewInv, NEW r \in RequestSet, BeginPreview(r)
    PROVE  PreviewInv'
  <1>1. disk' = disk /\ panel' = panel /\ shown' = shown /\ request' = r
    BY DEF BeginPreview
  <1>2. Agree(disk)' /\ Agree(panel)' /\ (DOMAIN shown \subseteq Files)'
    BY <1>1 DEF PreviewInv, Agree
  <1>3. CASE MapReads(r.map, r.batch) /\ BulkReads(r)
    <2>1. PICK copy \in Torn(disk, writing) : root' = Edited(copy, r)
      BY <1>3 DEF BeginPreview
    <2>2. Agree(copy)
      BY TornAgrees DEF PreviewInv
    <2>3. copy.entries \in Sidecars
      BY <2>2 DEF Agree
    <2>4. root'.entries = EditedEntries(copy.entries, r) /\ Agree(root')
      BY <1>3, <2>1, <2>2, EditedAgrees
    <2>5. Agree(root)'
      BY <2>4 DEF Agree
    <2>6. MadeByRequest'
      BY <1>1, <1>3, <2>3, <2>4 DEF MadeByRequest
    <2>7. phase' = "edited"
      BY <1>3 DEF BeginPreview
    <2> QED BY <1>1, <1>2, <2>5, <2>6, <2>7 DEF PreviewInv
  <1>4. CASE ~(MapReads(r.map, r.batch) /\ BulkReads(r))
    <2>1. root' = Nothing /\ phase' = "failed"
      BY <1>4 DEF BeginPreview
    <2>2. Agree(root)'
      BY <2>1, NothingAgrees DEF Agree, Nothing, Unsaid
    <2> QED BY <1>1, <1>2, <2>1, <2>2 DEF PreviewInv
  <1> QED BY <1>3, <1>4

LEMMA PreviewSteps == PreviewInv /\ [Next]_vars => PreviewInv'
  <1> SUFFICES ASSUME PreviewInv, [Next]_vars PROVE PreviewInv'
    OBVIOUS
  <1>0. Agree(disk) /\ Agree(root) /\ Agree(panel) /\ Agree(Nothing)
    BY NothingAgrees DEF PreviewInv
  <1>1. ASSUME NEW r \in Requests, BeginPreview(r) PROVE PreviewInv'
    BY <1>1, RequestsAreTyped, BeginSteps
  <1>2. ASSUME NEW r \in Requests, BeginOwnMapPreview(r) PROVE PreviewInv'
    <2>1. PICK map \in OwnMaps : BeginPreview([r EXCEPT !.map = map])
      BY <1>2 DEF BeginOwnMapPreview
    <2>2. [r EXCEPT !.map = map] \in RequestSet
      BY <1>0, OwnMapsAreMaps
    <2> QED BY <2>1, <2>2, BeginSteps
  <1>3. CASE Save
    <2>1. disk' \in Torn(root, writing) /\ phase' = "saved" /\ phase = "edited"
          /\ UNCHANGED <<root, panel, request, shown>>
      BY <1>3 DEF Save
    <2>2. Agree(disk')
      BY <1>0, <2>1, TornAgrees
    <2>3. Agree(disk)' /\ Agree(root)' /\ Agree(panel)' /\ MadeByRequest'
      BY <1>0, <2>1, <2>2 DEF Agree, PreviewInv, MadeByRequest
    <2> QED BY <2>1, <2>3 DEF PreviewInv
  <1>4. CASE SaveFails
    <2>1. disk' \in Torn(disk, TRUE) /\ phase' = "failed" /\ root' = Nothing
          /\ UNCHANGED <<panel, request, shown>>
      BY <1>4 DEF SaveFails, Fails
    <2>2. Agree(disk') /\ Agree(root')
      BY <1>0, <2>1, TornAgrees
    <2>3. Agree(disk)' /\ Agree(root)' /\ Agree(panel)'
      BY <1>0, <2>1, <2>2 DEF Agree
    <2> QED BY <2>1, <2>3 DEF PreviewInv
  <1>5. CASE Resolve
    <2>1. phase = "saved" /\ UNCHANGED <<disk, root, panel, request>>
      BY <1>5 DEF Resolve
    <2>2. Agree(disk)' /\ Agree(root)' /\ Agree(panel)' /\ MadeByRequest' /\ request' \in RequestSet
      BY <1>0, <2>1 DEF Agree, PreviewInv, MadeByRequest
    <2>3. CASE \A f \in request.batch : Resolves(root.entries, f)
      <3>1. shown' = [f \in request.batch |-> Resolved(root.entries, f)] /\ phase' = "shown"
        BY <1>5, <2>3 DEF Resolve
      <3>2. DOMAIN shown' \subseteq Files
        BY <3>1 DEF PreviewInv, RequestSet
      <3> QED BY <2>1, <2>2, <2>3, <3>1, <3>2 DEF PreviewInv
    <2>4. CASE ~\A f \in request.batch : Resolves(root.entries, f)
      <3>1. shown' = shown /\ phase' = "unresolved"
        BY <1>5, <2>4 DEF Resolve
      <3> QED BY <2>1, <2>2, <2>4, <3>1 DEF PreviewInv
    <2> QED BY <2>3, <2>4
  <1>6. ASSUME NEW f \in DOMAIN shown, NEW list \in {"manual", "adds"}, NEW csv \in Typed,
               PanelLoads(f, list, csv)
        PROVE  PreviewInv'
    <2>1. PICK copy \in Torn(disk, phase = "edited") :
            panel' = PanelEdited(copy, f, list, AppendCsvTags(csv))
      BY <1>6 DEF PanelLoads
    <2>2. UNCHANGED <<disk, root, phase, request, shown>>
      BY <1>6 DEF PanelLoads
    <2>3. Agree(copy) /\ f \in Files
      BY <1>0, TornAgrees DEF PreviewInv
    <2>4. AppendCsvTags(csv) \in Seq(Spelled)
      BY RequestAssumption, TypedAreSpelled
    <2>5. Agree(panel')
      BY <2>1, <2>3, <2>4, PanelEditedAgrees
    <2>6. Agree(panel)'
      BY <2>5 DEF Agree
    <2>7. Agree(disk)' /\ Agree(root)'
      BY <1>0, <2>2 DEF Agree
    <2>8. (MadeByRequest <=> MadeByRequest') /\ request' \in RequestSet /\ DOMAIN shown' \subseteq Files
      BY <2>2 DEF MadeByRequest, PreviewInv
    <2> QED BY <2>2, <2>6, <2>7, <2>8 DEF PreviewInv
  <1>7. CASE PanelSaves
    <2>1. panel' = Nothing /\ UNCHANGED <<root, phase, request, shown>>
      BY <1>7 DEF PanelSaves
    <2>2. disk' \in Torn(panel, phase = "edited") \/ disk' \in Torn(disk, TRUE)
      BY <1>7 DEF PanelSaves, Fails
    <2>3. Agree(disk') /\ Agree(panel')
      BY <1>0, <2>1, <2>2, TornAgrees
    <2>4. Agree(disk)' /\ Agree(root)' /\ Agree(panel)'
      BY <1>0, <2>1, <2>3 DEF Agree
    <2>5. (MadeByRequest <=> MadeByRequest') /\ request' \in RequestSet /\ DOMAIN shown' \subseteq Files
      BY <2>1 DEF MadeByRequest, PreviewInv
    <2> QED BY <2>1, <2>4, <2>5 DEF PreviewInv
  <1>8. CASE UNCHANGED vars
    BY <1>8 DEF vars, PreviewInv, Agree, MadeByRequest
  <1> QED BY <1>1, <1>2, <1>3, <1>4, <1>5, <1>6, <1>7, <1>8 DEF Next, Preview, Panel

(* What the lists say and what was last asked stay together: the inductive *)
(* invariant of the previews holds in every state, whoever writes the      *)
(* sidecar, however the paths are spelled that share an entry of it.       *)
THEOREM PreviewsAreEdits == Spec => []PreviewInv
  BY PreviewStarts, PreviewSteps, PTL DEF Spec

(* What a preview shows is what was last asked of every entry and tag of   *)
(* the sidecar it loaded and by itself, after any number of previews,      *)
(* maps, panel edits, failed writes and restarts, for every batch,         *)
(* whitelist, limit, spelling of the paths and spelling of the tags, but   *)
(* for what a list that holds an unnormalized spelling may show or hide.   *)
THEOREM DecisionsShow == Spec => []DecisionsAreShown
  <1>1. PreviewInv => DecisionsAreShown
    <2> SUFFICES ASSUME PreviewInv, phase = "shown" PROVE DecisionsAreShown
      BY DEF DecisionsAreShown
    <2> DEFINE E(f) == Entry(root.entries, Key[f])
    <2>1. /\ root.entries \in Sidecars /\ Agree(root)
          /\ \A f \in request.batch : /\ f \in Files /\ Key[f] \in Keys(Files)
                                      /\ Resolves(root.entries, f)
                                      /\ shown[f] = Resolved(root.entries, f)
      <3>1. request.batch \subseteq Files
        BY DEF PreviewInv, RequestSet
      <3> QED BY <3>1 DEF PreviewInv, Agree, Keys
    <2>2. ASSUME NEW f \in request.batch
          PROVE  /\ Range(shown[f].manual) = Tags(E(f).manual)
                 /\ Tags(E(f).adds) \ Range(E(f).hidden) \subseteq Range(shown[f].meta)
                 /\ Range(shown[f].meta) \cap Range(E(f).hidden) = {}
                 /\ Range(shown[f].merged) = Range(shown[f].manual) \cup Range(shown[f].meta)
                 /\ Cardinality(Range(shown[f].merged)) = Len(shown[f].merged)
      BY <2>1, ResolvedTags
    <2>3. ASSUME NEW f \in request.batch, NEW t \in AllTags
          PROVE  /\ root.manualIs[Key[f]][t] = "on"  => t \in Range(shown[f].manual)
                 /\ root.manualIs[Key[f]][t] = "off" /\ Plain(E(f).manual)
                      => t \notin Range(shown[f].manual)
                 /\ root.metaIs[Key[f]][t] = "on" /\ Plain(E(f).adds)
                      => t \in Range(shown[f].meta)
                 /\ root.metaIs[Key[f]][t] = "off" => t \notin Range(shown[f].meta)
      <3>1. Agrees(E(f), t, root.manualIs[Key[f]][t], root.metaIs[Key[f]][t])
        BY <2>1 DEF Agree
      <3> QED BY <2>2, <3>1 DEF Agrees
    <2> QED BY <2>2, <2>3 DEF DecisionsAreShown
  <1> QED BY <1>1, PreviewsAreEdits, PTL

(* A saved edit keeps its preview from being shown only when some file of  *)
(* the batch has metadata that does not parse or has, with what its keys   *)
(* hold, as many different tags as the limit.                              *)
THEOREM FailuresAreAtTheLimit == Spec => []FailsOnlyAtTheLimit
  <1>1. PreviewInv => FailsOnlyAtTheLimit
    <2> SUFFICES ASSUME PreviewInv, phase = "unresolved" PROVE FailsOnlyAtTheLimit
      BY DEF FailsOnlyAtTheLimit
    <2> DEFINE entries == root.entries
    <2>1. entries \in Sidecars /\ request.batch \subseteq Files
      BY DEF PreviewInv, RequestSet, Agree
    <2>2. PICK f \in request.batch : ~Resolves(entries, f)
      BY DEF PreviewInv
    <2>3. Metadata[f] = Malformed \/
          Cardinality(Tags(Entry(entries, Key[f]).manual) \cup Tags(Entry(entries, Key[f]).adds)
                      \cup UNION {Tags(node.tags) : node \in KeyNodes(f)}) >= TagLimit
      BY <2>1, <2>2, UnresolvedReaches DEF Held
    <2> QED BY <2>3 DEF FailsOnlyAtTheLimit
  <1> QED BY <1>1, PreviewsAreEdits, PTL

(* The preview that was shown, made again of the sidecar it saved: its     *)
(* edits, made to lists that hold them, show the same tags in the same     *)
(* order.                                                                  *)
THEOREM RepeatedEditsAreSame == Spec => SameEditSameTags
  <1>1. PreviewInv /\ [Next]_vars =>
          (phase = "shown" /\ phase' = "edited" /\ request' = request /\ disk = root /\ ~writing
             => \A f \in request.batch : Resolved(root'.entries, f) = shown[f])
    <2> SUFFICES ASSUME PreviewInv, [Next]_vars, phase = "shown", phase' = "edited",
                        request' = request, disk = root, ~writing, NEW f \in request.batch
                 PROVE  Resolved(root'.entries, f) = shown[f]
      OBVIOUS
    <2>1. \E r \in RequestSet : BeginPreview(r)
      <3>1. CASE \E r \in Requests : BeginPreview(r)
        BY <3>1, RequestsAreTyped
      <3>2. CASE \E r \in Requests : BeginOwnMapPreview(r)
        <4>1. PICK r \in Requests, map \in OwnMaps : BeginPreview([r EXCEPT !.map = map])
          BY <3>2 DEF BeginOwnMapPreview
        <4> QED BY <4>1, OwnMapsAreMaps DEF PreviewInv
      <3>3. ~(Save \/ SaveFails \/ Resolve \/ Panel \/ UNCHANGED vars)
        BY DEF vars, Save, SaveFails, Resolve, Panel, PanelLoads, PanelSaves
      <3> QED BY <3>1, <3>2, <3>3 DEF Next, Preview
    <2>2. PICK r \in RequestSet : BeginPreview(r)
      BY <2>1
    <2>3. r = request /\ MapReads(r.map, r.batch) /\ BulkReads(r)
      BY <2>2 DEF BeginPreview
    <2>4. root' = Edited(root, r)
      BY <2>2, <2>3 DEF BeginPreview, Torn
    <2>5. root'.entries = EditedEntries(root.entries, request)
      BY <2>3, <2>4, EditedAgrees DEF PreviewInv
    <2>6. shown[f] = Resolved(root.entries, f) /\ MadeByRequest /\ request \in RequestSet
      BY DEF PreviewInv
    <2>7. PICK before \in Sidecars : root.entries = EditedEntries(before, request)
      BY <2>6 DEF MadeByRequest
    <2> QED BY <2>5, <2>6, <2>7, EditedAgain DEF MadeByRequest
  <1> QED BY <1>1, PreviewsAreEdits, PTL DEF Spec, SameEditSameTags

(***************************************************************************)
(* Part 8: names.  Whatever text a name is made of, what is left of it is a *)
(* slug that begins and ends with a letter or digit, and shortening it      *)
(* keeps it one.                                                            *)
(***************************************************************************)
Safe == Range(Lower) \cup Marks

SafeName(name) ==
    /\ name \in Seq(Safe) /\ name # << >>
    /\ name[1] \notin Marks /\ name[Len(name)] \notin Marks

LEMMA Letters ==
    ASSUME NEW c \in Range(Lower)
    PROVE  c \in DOMAIN Lower /\ Lower[c] = c /\ c \notin Marks
  <1>1. PICK d \in DOMAIN Lower : c = Lower[d]
    BY DEF Range
  <1> QED BY <1>1, LowerAssumption

LEMMA SeqOfMore ==
    ASSUME NEW S, NEW T, S \subseteq T
    PROVE  Seq(S) \subseteq Seq(T)
  OBVIOUS

(* The characters of the texts of a preview, and the texts.                *)
Char == STRING \cup Safe

LEMMA SafeIsText == Seq(Safe) \subseteq Seq(Char) /\ Text \subseteq Seq(Char) /\ STRING \subseteq Char
  <1>1. STRING \subseteq Char /\ Safe \subseteq Char
    BY DEF Char
  <1>2. Seq(Safe) \subseteq Seq(Char)
    BY <1>1, SeqOfMore
  <1>3. Seq(STRING) \subseteq Seq(Char)
    BY <1>1, SeqOfMore, Zenon
  <1> QED BY <1>1, <1>2, <1>3 DEF Text

Fnv1a32Is(f, name) ==
    f = [i \in 0 .. Len(name) |->
           IF i = 0 THEN Basis ELSE Mix[<<f[i - 1], name[i]>>]]

Fnv1a32Run(name) == CHOOSE f : Fnv1a32Is(f, name)

LEMMA Fnv1a32Runs ==
    ASSUME NEW name \in Seq(Safe)
    PROVE  /\ Fnv1a32Run(name) \in [0 .. Len(name) -> (DOMAIN Hex)]
           /\ Fnv1a32Run(name)[0] = Basis
           /\ \A i \in 1 .. Len(name) :
                Fnv1a32Run(name)[i] = Mix[<<Fnv1a32Run(name)[i - 1], name[i]>>]
           /\ Fnv1a32(name) = Fnv1a32Run(name)[Len(name)]
  <1> DEFINE n == Len(name)
             step == [p \in (1 .. n) \X (DOMAIN Hex) |-> Mix[<<p[2], name[p[1]]>>]]
             c == Fnv1a32Run(name)
  <1>1. /\ n \in Nat /\ Basis \in (DOMAIN Hex)
        /\ \A i \in 1 .. n : i \in 0 .. n /\ i - 1 \in 0 .. n /\ i # 0
    BY HashAssumption
  <1>2. \A i \in 1 .. n, s \in (DOMAIN Hex) : (Mix[<<s, name[i]>>]) \in (DOMAIN Hex)
    BY HashAssumption DEF Safe
  <1>3. Fnv1a32(name) = c[n]
    BY DEF Fnv1a32, Loop, Fnv1a32Is, Fnv1a32Run
  <1>4. \E f : Fnv1a32Is(f, name)
    <2>1. step \in [(1 .. n) \X (DOMAIN Hex) -> (DOMAIN Hex)]
      BY <1>2
    <2>2. \A i \in 1 .. n, s \in (DOMAIN Hex) : step[<<i, s>>] = (Mix[<<s, name[i]>>])
      OBVIOUS
    <2> HIDE DEF step
    <2>3. PICK f \in [0 .. n -> (DOMAIN Hex)] : Runs(f, n, Basis, step)
      BY <1>1, <2>1, LoopRuns
    <2>4. f[0] = Basis /\ \A i \in 1 .. n : f[i] = (Mix[<<f[i - 1], name[i]>>])
      <3>1. \A i \in 1 .. n : f[i - 1] \in (DOMAIN Hex)
        <4> HIDE DEF n
        <4> QED BY <1>1
      <3> QED BY <2>2, <2>3, <3>1 DEF Runs
    <2>5. Fnv1a32Is([i \in 0 .. n |-> f[i]], name)
      <3>1. \A i \in 0 .. n : i # 0 => i \in 1 .. n
        BY <1>1
      <3> QED BY <1>1, <2>4, <3>1 DEF Fnv1a32Is
    <2> QED BY <2>5
  <1>5. Fnv1a32Is(c, name)
    BY <1>4 DEF Fnv1a32Run
  <1> HIDE DEF c
  <1>6. /\ DOMAIN c = 0 .. n /\ c = [i \in 0 .. n |-> c[i]] /\ c[0] = Basis
        /\ \A i \in 1 .. n : c[i] = (Mix[<<c[i - 1], name[i]>>])
    <2>1. \A i \in 0 .. n : c[i] = IF i = 0 THEN Basis ELSE (Mix[<<c[i - 1], name[i]>>])
      BY <1>5 DEF Fnv1a32Is
    <2>2. DOMAIN c = 0 .. n /\ c = [i \in 0 .. n |-> c[i]]
      BY <1>5 DEF Fnv1a32Is
    <2> HIDE DEF n
    <2>3. 0 \in 0 .. n
      BY <1>1
    <2> QED BY <1>1, <2>1, <2>2, <2>3
  <1>7. c \in [0 .. n -> (DOMAIN Hex)]
    <2> HIDE DEF n
    <2>1. \A i \in 1 .. n : c[i - 1] \in (DOMAIN Hex) => c[i] \in (DOMAIN Hex)
      BY <1>2, <1>6
    <2> QED BY <1>1, <1>6, <2>1, RunsAreTyped
  <1> QED BY <1>3, <1>6, <1>7 DEF c

LEMMA DigestIs ==
    ASSUME NEW name \in Seq(Safe)
    PROVE  /\ Digest(name) \in Seq(Range(Lower)) /\ Digest(name) # << >>
           /\ Len(Digest(name)) + ExtMax + 1 < NameMax
  <1>1. Fnv1a32(name) \in DOMAIN Hex
    <2>1. Len(name) \in 0 .. Len(name)
      OBVIOUS
    <2> QED BY <2>1, Fnv1a32Runs
  <1> QED BY <1>1, HashAssumption DEF Digest

LEMMA FirstIs ==
    ASSUME NEW T, NEW text \in Seq(T), NEW n \in Nat
    PROVE  /\ First(text, n) \in Seq(T)
           /\ Len(First(text, n)) = IF n < Len(text) THEN n ELSE Len(text)
           /\ \A k \in 1 .. Len(First(text, n)) : First(text, n)[k] = text[k]
  <1> DEFINE m == Min({n, Len(text)})
  <1>1. {n, Len(text)} \subseteq Nat /\ {n, Len(text)} # {}
    OBVIOUS
  <1>2. m \in {n, Len(text)} /\ \A j \in {n, Len(text)} : m <= j
    BY <1>1, MinIs
  <1>3. First(text, n) = SubSeq(text, 1, m)
    BY DEF First
  <1> HIDE DEF m
  <1> QED BY <1>2, <1>3

LEMMA DotIs ==
    ASSUME NEW T, NEW name \in Seq(T)
    PROVE  /\ DotOf(name) \in 0 .. Len(name)
           /\ DotOf(name) # 0 => name[DotOf(name)] = "."
           /\ \A k \in DotOf(name) + 1 .. Len(name) : name[k] # "."
  <1> DEFINE dots == {i \in DOMAIN name : name[i] = "."}
  <1>1. dots \subseteq 0 .. Len(name) /\ Len(name) \in Nat /\ DOMAIN name = 1 .. Len(name)
    OBVIOUS
  <1>2. CASE dots = {}
    <2>1. DotOf(name) = 0
      BY <1>2 DEF DotOf
    <2> QED BY <1>1, <1>2, <2>1
  <1>3. CASE dots # {}
    <2>1. DotOf(name) = Max(dots)
      BY <1>3 DEF DotOf
    <2>2. Max(dots) \in dots /\ \A j \in dots : j <= Max(dots)
      BY <1>1, <1>3, MaxIs
    <2>3. DotOf(name) \in 1 .. Len(name) /\ name[DotOf(name)] = "."
      BY <1>1, <2>1, <2>2
    <2>4. ASSUME NEW k \in DotOf(name) + 1 .. Len(name) PROVE name[k] # "."
      <3>1. k \in DOMAIN name /\ ~(k <= DotOf(name))
        BY <2>3
      <3>2. k \notin dots
        BY <2>1, <2>2, <3>1
      <3> QED BY <3>1, <3>2
    <2> QED BY <2>3, <2>4
  <1> QED BY <1>2, <1>3

LEMMA DotAt ==
    ASSUME NEW T, NEW name \in Seq(T), NEW d \in 1 .. Len(name), name[d] = ".",
           \A k \in d + 1 .. Len(name) : name[k] # "."
    PROVE  DotOf(name) = d
  <1> DEFINE e == DotOf(name)
             dots == {i \in DOMAIN name : name[i] = "."}
  <1>1. /\ e \in 0 .. Len(name)
        /\ e # 0 => name[e] = "."
        /\ \A k \in e + 1 .. Len(name) : name[k] # "."
    BY DotIs
  <1> HIDE DEF e
  <1>0. d \in Nat /\ Len(name) \in Nat /\ e \in Nat
    BY <1>1
  <1>2. ~(e < d)
    <2>1. SUFFICES ASSUME e < d PROVE FALSE
      OBVIOUS
    <2>2. d \in e + 1 .. Len(name)
      BY <1>0, <2>1
    <2> QED BY <1>1, <2>2
  <1>3. ~(d < e)
    <2>1. SUFFICES ASSUME d < e PROVE FALSE
      OBVIOUS
    <2>2. e \in d + 1 .. Len(name) /\ e # 0
      BY <1>0, <1>1, <2>1
    <2> QED BY <1>1, <2>2
  <1> QED BY <1>0, <1>2, <1>3 DEF e

LEMMA ExtensionIs ==
    ASSUME NEW T, NEW name \in Seq(T)
    PROVE  /\ Extension(name) \in Seq(T)
           /\ Len(Extension(name)) <= ExtMax /\ Len(Extension(name)) <= Len(name)
           /\ Extension(name) # << >> => Extension(name)[Len(Extension(name))] = name[Len(name)]
  <1> DEFINE d == DotOf(name)
             e == Extension(name)
  <1>1. d \in 0 .. Len(name) /\ Len(name) \in Nat /\ ExtMax \in Nat
    BY DotIs, NameMaxAssumption
  <1>2. CASE d <= 1 \/ Len(name) - d + 1 > ExtMax
    <2>1. e = << >>
      BY <1>2 DEF Extension
    <2> QED BY <1>1, <2>1
  <1>3. CASE ~(d <= 1 \/ Len(name) - d + 1 > ExtMax)
    <2>1. e = SubSeq(name, d, Len(name))
      BY <1>3 DEF Extension
    <2> HIDE DEF d, e
    <2>2. /\ e \in Seq(T) /\ Len(e) = Len(name) - d + 1
          /\ \A k \in 1 .. Len(name) - d + 1 : e[k] = name[d + k - 1]
      BY <1>1, <1>3, <2>1
    <2>3. Len(e) \in 1 .. Len(name) - d + 1 /\ d + Len(e) - 1 = Len(name)
      BY <1>1, <1>3, <2>2
    <2>4. e[Len(e)] = name[Len(name)]
      BY <2>2, <2>3
    <2> QED BY <1>1, <1>3, <2>2, <2>3, <2>4 DEF e
  <1> QED BY <1>2, <1>3

(* A name that is too long is cut in front of its suffix and extension.    *)
LEMMA ShortenedIs ==
    ASSUME NEW name \in Seq(Safe), Len(name) > NameMax
    PROVE  \E head \in Seq(Safe) :
             /\ head # << >> /\ head[1] = name[1]
             /\ Len(head) + Len(Digest(name)) + 1 + Len(Extension(name)) = NameMax
             /\ ApplyLengthPolicy(name) = head \o (<<"-">> \o Digest(name)) \o Extension(name)
  <1> DEFINE digest == Digest(name)
             suffix == <<"-">> \o digest
             ext == Extension(name)
             taken == Len(suffix) + Len(ext)
             keep == IF NameMax > taken THEN NameMax - taken ELSE 0
             head == First(name, keep)
  <1>1. /\ digest \in Seq(Range(Lower)) /\ digest # << >>
        /\ Len(digest) + ExtMax + 1 < NameMax
    BY DigestIs
  <1>2. ext \in Seq(Safe) /\ Len(ext) <= ExtMax
    BY ExtensionIs
  <1>3. ApplyLengthPolicy(name) = head \o suffix \o ext
    BY NameMaxAssumption DEF ApplyLengthPolicy
  <1>4. NameMax \in Nat /\ ExtMax \in Nat
    BY NameMaxAssumption
  <1> HIDE DEF digest, ext
  <1>5. Len(suffix) = Len(digest) + 1
    BY <1>1
  <1>6. keep \in Nat /\ keep >= 1 /\ keep = NameMax - (Len(digest) + 1 + Len(ext)) /\ keep < Len(name)
    BY <1>1, <1>2, <1>4, <1>5
  <1> HIDE DEF keep
  <1>7. head \in Seq(Safe) /\ Len(head) = keep /\ head[1] = name[1]
    BY <1>6, FirstIs
  <1> HIDE DEF head
  <1>8. head # << >> /\ Len(head) + Len(digest) + 1 + Len(ext) = NameMax
    BY <1>1, <1>2, <1>4, <1>6, <1>7
  <1> QED BY <1>3, <1>7, <1>8 DEF digest, ext

LEMMA ShortIsSafe ==
    ASSUME NEW name, SafeName(name)
    PROVE  SafeName(ApplyLengthPolicy(name)) /\ Len(ApplyLengthPolicy(name)) <= NameMax
  <1>1. NameMax \in Nat /\ name \in Seq(Safe)
    BY NameMaxAssumption DEF SafeName
  <1>2. CASE Len(name) <= NameMax
    BY <1>1, <1>2 DEF ApplyLengthPolicy
  <1>3. CASE Len(name) > NameMax
    <2> DEFINE digest == Digest(name)
               ext == Extension(name)
               short == ApplyLengthPolicy(name)
    <2>1. PICK head \in Seq(Safe) :
             /\ head # << >> /\ head[1] = name[1]
             /\ Len(head) + Len(digest) + 1 + Len(ext) = NameMax
             /\ short = head \o (<<"-">> \o digest) \o ext
      BY <1>1, <1>3, ShortenedIs
    <2>2. digest \in Seq(Range(Lower)) /\ digest # << >>
      BY <1>1, DigestIs
    <2>3. ext \in Seq(Safe) /\ (ext # << >> => ext[Len(ext)] = name[Len(name)])
      BY <1>1, ExtensionIs
    <2> HIDE DEF digest, ext, short
    <2>4. digest \in Seq(Safe) /\ <<"-">> \in Seq(Safe)
      <3>1. Range(Lower) \subseteq Safe /\ "-" \in Safe
        BY DEF Safe, Marks
      <3> QED BY <2>2, <3>1
    <2>5. short \in Seq(Safe) /\ Len(short) = NameMax /\ short[1] = name[1]
      BY <1>1, <2>1, <2>3, <2>4
    <2>6. short[Len(short)] \notin Marks
      <3>1. CASE ext = << >>
        <4>1. short[Len(short)] = digest[Len(digest)] /\ digest[Len(digest)] \in Range(Lower)
          BY <2>1, <2>2, <2>4, <3>1
        <4> QED BY <4>1, Letters
      <3>2. CASE ext # << >>
        <4>1. short[Len(short)] = ext[Len(ext)]
          BY <2>1, <2>3, <2>4, <3>2
        <4> QED BY <2>3, <3>2, <4>1 DEF SafeName
      <3> QED BY <3>1, <3>2
    <2>7. short # << >>
      BY <1>1, <2>1, <2>3, <2>4, <2>5
    <2> QED BY <1>1, <2>5, <2>6, <2>7 DEF SafeName, short
  <1> QED BY <1>1, <1>2, <1>3

Slug(text, size) == SqueezeThenTrim(Mapped(SlugChar, text), Marks, size)

LEMMA SlugIs ==
    ASSUME NEW T, NEW text \in Seq(T), NEW size \in Nat
    PROVE  /\ Slug(text, size) \in Seq(Safe)
           /\ Neat(Slug(text, size), Marks) /\ Fits(Slug(text, size), size)
  <1> DEFINE m == Mapped(SlugChar, text)
             s == Squeeze(m, Marks, size)
  <1>1. \A c : SlugChar(c) \in Safe
    BY DEF SlugChar, Alphanumeric, Safe, Range, Marks
  <1>2. m \in Seq(Safe)
    BY <1>1 DEF Mapped
  <1>3. Slug(text, size) = Trim(s, Marks)
    BY DEF Slug, SqueezeThenTrim
  <1> HIDE DEF m
  <1>4. s \in Seq(Safe) /\ Fits(s, size)
    BY <1>2, SqueezeIsTidy
  <1> HIDE DEF s
  <1> QED BY <1>3, <1>4, TrimIs

LEMMA FinishedIsSafe ==
    ASSUME NEW T, NEW text \in Seq(T)
    PROVE  SafeName(Finished(text)) /\ Len(Finished(text)) <= NameMax
  <1> DEFINE slug == Slug(text, RenderSize)
             name == BuildSlug(text, RenderSize, <<"f">>)
  <1>1. "f" \in Range(Lower) /\ RenderSize \in Nat /\ RenderSize >= 2
    BY PatternAssumption
  <1>2. SafeName(<<"f">>)
    BY <1>1, Letters DEF SafeName, Safe
  <1>3. NameMax \in Nat /\ NameMax >= 1
    <2>1. Hex[Basis] \in Seq(Range(Lower)) /\ Len(Hex[Basis]) + ExtMax + 1 < NameMax
      BY HashAssumption
    <2>2. Len(Hex[Basis]) \in Nat
      BY <2>1
    <2> QED BY <2>1, <2>2, NameMaxAssumption
  <1>4. SafeName(name)
    <2>1. slug \in Seq(Safe) /\ Neat(slug, Marks)
      BY <1>1, SlugIs
    <2>2. name = IF slug = << >> THEN First(<<"f">>, RenderSize - 1) ELSE slug
      BY DEF BuildSlug, Slug
    <2> HIDE DEF slug, name
    <2>3. CASE slug = << >>
      <3>1. First(<<"f">>, RenderSize - 1) = <<"f">>
        <4> DEFINE file == <<"f">>
                   m == RenderSize - 1
        <4>1. file \in Seq(Safe) /\ Len(file) = 1 /\ file[1] = "f"
          BY <1>1 DEF Safe
        <4>2. m \in Nat /\ ~(m < 1)
          BY <1>1
        <4>3. First(file, m) \in Seq(Safe) /\ Len(First(file, m)) = 1 /\ First(file, m)[1] = "f"
          <5> HIDE DEF file, m
          <5>1. /\ First(file, m) \in Seq(Safe)
                /\ Len(First(file, m)) = IF m < Len(file) THEN m ELSE Len(file)
                /\ \A k \in 1 .. Len(First(file, m)) : First(file, m)[k] = file[k]
            BY <4>1, <4>2, FirstIs
          <5>2. Len(First(file, m)) = 1
            BY <4>1, <4>2, <5>1
          <5> QED BY <4>1, <5>1, <5>2
        <4> QED BY <4>3
      <3> QED BY <1>2, <2>2, <2>3, <3>1
    <2>4. CASE slug # << >>
      BY <2>1, <2>2, <2>4 DEF SafeName, Neat
    <2> QED BY <2>3, <2>4
  <1>5. CASE text = << >>
    <2>1. Finished(text) = <<"f">> /\ Len(<<"f">>) = 1
      BY <1>5 DEF Finished
    <2> QED BY <1>2, <1>3, <2>1
  <1>6. CASE text # << >>
    <2>1. Finished(text) = ApplyLengthPolicy(name)
      BY <1>6 DEF Finished
    <2> QED BY <1>4, <2>1, ShortIsSafe
  <1> QED BY <1>5, <1>6

(***************************************************************************)
(* Part 9: patterns.  A position of a pattern has at most one piece, the    *)
(* one that the scanner reads there.                                        *)
(***************************************************************************)
FileRecord == [dateTaken : Text, make : Text, model : Text, lat : Text, lon : Text,
               path : Text, tags_manual : Text, tags_meta : Text, tags : Text]

LEMMA RecordOf ==
    ASSUME NEW md \in FileRecord
    PROVE  /\ md.dateTaken \in Text /\ md.make \in Text /\ md.model \in Text
           /\ md.lat \in Text /\ md.lon \in Text /\ md.path \in Text
           /\ md.tags_manual \in Text /\ md.tags_meta \in Text /\ md.tags \in Text
  BY DEF FileRecord

LEMMA TakenIs ==
    ASSUME NEW T, NEW md, md.dateTaken \in Seq(T), NEW spans,
           \A k \in 1 .. 3 : spans[k][1] \in 1 .. 19 /\ spans[k][2] \in 1 .. 19
    PROVE  Taken(md, spans) \in Seq(T)
  <1> DEFINE text == md.dateTaken
             Digits(k) == SubSeq(text, spans[k][1], spans[k][2])
  <1>1. CASE Len(text) < 19
    BY <1>1 DEF Taken
  <1>2. CASE ~(Len(text) < 19)
    <2>1. Taken(md, spans) = Digits(1) \o Digits(2) \o Digits(3)
      BY <1>2 DEF Taken
    <2>2. text \in Seq(T) /\ Len(text) \in Nat /\ Len(text) >= 19
      BY <1>2
    <2> HIDE DEF text
    <2>3. ASSUME NEW k \in 1 .. 3 PROVE Digits(k) \in Seq(T)
      <3> DEFINE a == spans[k][1]
                 b == spans[k][2]
      <3>1. a \in 1 .. 19 /\ b \in 1 .. 19
        OBVIOUS
      <3> HIDE DEF a, b
      <3>2. SubSeq(text, a, b) \in Seq(T)
        BY <2>2, <3>1
      <3> QED BY <3>2 DEF a, b
    <2>4. Digits(1) \in Seq(T) /\ Digits(2) \in Seq(T) /\ Digits(3) \in Seq(T)
      BY <2>3
    <2> HIDE DEF Digits
    <2> QED BY <2>1, <2>4
  <1> QED BY <1>1, <1>2

LEMMA FormatIs ==
    ASSUME NEW path \in Seq(Char)
    PROVE  Format(path) \in Seq(Char)
  <1>1. CASE DotOf(path) = 0
    BY <1>1 DEF Format
  <1>2. CASE DotOf(path) # 0
    <2> DEFINE d == DotOf(path)
               Low(c) == IF Alphanumeric(c) THEN Lower[c] ELSE c
    <2>1. d \in 0 .. Len(path) /\ Len(path) \in Nat
      BY DotIs
    <2>2. \A c \in Char : Low(c) \in Char
      BY DEF Alphanumeric, Char, Safe, Range
    <2>3. Format(path) = [i \in 1 .. Len(path) - d |-> Low(path[d + i])]
      BY <1>2 DEF Format
    <2> HIDE DEF d, Low
    <2>4. \A i \in 1 .. Len(path) - d : Low(path[d + i]) \in Char
      <3>1. \A i \in 1 .. Len(path) - d : d + i \in 1 .. Len(path)
        BY <2>1
      <3>2. \A i \in 1 .. Len(path) - d : path[d + i] \in Char
        BY <3>1
      <3> QED BY <2>2, <3>2
    <2>5. Len(path) - d \in Nat
      BY <2>1
    <2> QED BY <2>3, <2>4, <2>5
  <1> QED BY <1>1, <1>2

LEMMA JoinedIs ==
    ASSUME NEW T, NEW a \in Seq(T), NEW b \in Seq(T), "-" \in T
    PROVE  Joined(a, b) \in Seq(T)
  BY DEF Joined

LEMMA FieldIs ==
    ASSUME NEW md \in FileRecord, NEW field \in Fields \ {"index"}
    PROVE  Field(md, field) \in Seq(Char)
  <1>1. /\ md.dateTaken \in Seq(Char) /\ md.make \in Seq(Char) /\ md.model \in Seq(Char)
        /\ md.lat \in Seq(Char) /\ md.lon \in Seq(Char) /\ md.path \in Seq(Char)
        /\ md.tags_manual \in Seq(Char) /\ md.tags_meta \in Seq(Char) /\ md.tags \in Seq(Char)
    BY RecordOf, SafeIsText
  <1> DEFINE day  == Taken(md, <<<<1, 4>>, <<6, 7>>, <<9, 10>>>>)
             time == Taken(md, <<<<12, 13>>, <<15, 16>>, <<18, 19>>>>)
  <1>2. day \in Seq(Char)
    <2> DEFINE spans == <<<<1, 4>>, <<6, 7>>, <<9, 10>>>>
    <2>1. \A k \in 1 .. 3 : spans[k][1] \in 1 .. 19 /\ spans[k][2] \in 1 .. 19
      OBVIOUS
    <2> HIDE DEF spans
    <2>2. Taken(md, spans) \in Seq(Char)
      BY <1>1, <2>1, TakenIs
    <2> QED BY <2>2 DEF spans
  <1>3. time \in Seq(Char)
    <2> DEFINE spans == <<<<12, 13>>, <<15, 16>>, <<18, 19>>>>
    <2>1. \A k \in 1 .. 3 : spans[k][1] \in 1 .. 19 /\ spans[k][2] \in 1 .. 19
      OBVIOUS
    <2> HIDE DEF spans
    <2>2. Taken(md, spans) \in Seq(Char)
      BY <1>1, <2>1, TakenIs
    <2> QED BY <2>2 DEF spans
  <1>4. "-" \in Char
    BY DEF Char, Safe, Marks
  <1>5. /\ field = "date" => Field(md, field) = day
        /\ field = "time" => Field(md, field) = time
        /\ field = "datetime" => Field(md, field) = Joined(day, time)
        /\ field = "camera" => Field(md, field) = Joined(md.make, md.model)
        /\ field = "location" => Field(md, field) = Joined(md.lat, md.lon)
        /\ field = "format" => Field(md, field) = Format(md.path)
    BY DEF Field
  <1>6. /\ field = "make" => Field(md, field) = md.make
        /\ field = "model" => Field(md, field) = md.model
        /\ field = "lat" => Field(md, field) = md.lat
        /\ field = "lon" => Field(md, field) = md.lon
        /\ field = "tags_manual" => Field(md, field) = md.tags_manual
        /\ field = "tags_meta" => Field(md, field) = md.tags_meta
        /\ field = "tags" => Field(md, field) = md.tags
    BY DEF Field
  <1> HIDE DEF day, time
  <1>7. Joined(day, time) \in Seq(Char) /\ Joined(md.make, md.model) \in Seq(Char)
        /\ Joined(md.lat, md.lon) \in Seq(Char) /\ Format(md.path) \in Seq(Char)
    BY <1>1, <1>2, <1>3, <1>4, JoinedIs, FormatIs
  <1>8. \/ field = "date" \/ field = "time" \/ field = "datetime" \/ field = "camera"
        \/ field = "make" \/ field = "model" \/ field = "format" \/ field = "lat"
        \/ field = "lon" \/ field = "location" \/ field = "tags_manual"
        \/ field = "tags_meta" \/ field = "tags"
    BY DEF Fields
  <1> QED BY <1>1, <1>2, <1>3, <1>5, <1>6, <1>7, <1>8

(* What a token stands for is a text.                                      *)
LEMMA ValueIs ==
    ASSUME NEW t \in DOMAIN Allowlist, NEW i \in DOMAIN Batch
    PROVE  ResolveTokenValue(t, i) \in Seq(Char)
  <1> DEFINE field == Allowlist[t]
  <1>1. field \in Range(Allowlist)
    BY DEF Range
  <1>2. field \in Fields
    BY <1>1, BatchAssumption
  <1>3. CASE field = "index"
    <2>1. ResolveTokenValue(t, i) = Numeral[i]
      BY <1>3 DEF ResolveTokenValue
    <2>2. Numeral[i] \in Seq(Range(Lower))
      BY BatchAssumption
    <2>3. Numeral[i] \in Seq(Safe)
      BY <2>2, SeqOfMore DEF Safe
    <2> QED BY <2>1, <2>3, SafeIsText
  <1>4. CASE field # "index"
    <2> DEFINE value == Field(Batch[i], field)
               slug == Slug(value, ValueSize)
               other == First(Fallback[field], ValueSize - 1)
    <2>1. ResolveTokenValue(t, i) = IF slug = << >> THEN other ELSE slug
      BY <1>4 DEF ResolveTokenValue, BuildSlug, Slug
    <2>2. Batch[i] \in FileRecord
      <3>1. Batch \in Seq(FileRecord)
        BY BatchAssumption DEF FileRecord
      <3> HIDE DEF FileRecord
      <3> QED BY <3>1
    <2>3. value \in Seq(Char)
      BY <1>2, <1>4, <2>2, FieldIs
    <2>4. ValueSize \in Nat /\ ValueSize - 1 \in Nat
      BY PatternAssumption
    <2> HIDE DEF value
    <2>5. slug \in Seq(Char)
      BY <2>3, <2>4, SlugIs, SafeIsText
    <2>6. Fallback[field] \in Text
      BY <1>1, <1>4, BatchAssumption
    <2>7. other \in Seq(Char)
      <3>1. Fallback[field] \in Seq(Char)
        BY <2>6, SafeIsText
      <3> HIDE DEF field
      <3> QED BY <2>4, <3>1, FirstIs
    <2> QED BY <2>1, <2>5, <2>7
  <1> QED BY <1>3, <1>4

Bracket == {"[", "]"}

(* A token u stands at i: a bracket, its characters and the other bracket. *)
TokenAt(p, i, u) ==
    /\ i + Len(u) < Len(p) /\ p[i] = "[" /\ p[i + Len(u) + 1] = "]"
    /\ \A k \in 1 .. Len(u) : p[i + k] = u[k]

LEMMA TokensAre ==
    ASSUME NEW u \in DOMAIN Allowlist
    PROVE  u \in Seq(Char) /\ Len(u) \in Nat /\ Len(u) >= 1 /\ \A k \in 1 .. Len(u) : u[k] \notin Bracket
  <1>1. u \in Text /\ Len(u) \in 1 .. 63 /\ Range(u) \cap {"[", "]"} = {}
    BY AllowlistAssumption DEF Text
  <1>2. u \in Seq(Char)
    BY <1>1, SafeIsText
  <1>3. \A k \in 1 .. Len(u) : u[k] \in Range(u)
    BY <1>2 DEF Range
  <1>4. \A k \in 1 .. Len(u) : u[k] \notin Bracket
    BY <1>1, <1>3 DEF Bracket
  <1>5. Len(u) \in Nat /\ Len(u) >= 1
    <2> DEFINE k == Len(u)
    <2>1. k \in 1 .. 63
      BY <1>1
    <2> HIDE DEF k
    <2>2. k \in Nat /\ k >= 1
      BY <2>1
    <2> QED BY <2>2 DEF k
  <1> QED BY <1>2, <1>4, <1>5

LEMMA TokenAtIs ==
    ASSUME NEW C, NEW p \in Seq(C), NEW i \in 1 .. Len(p), NEW D, NEW u \in Seq(D), i + Len(u) < Len(p)
    PROVE  SubSeq(p, i, i + Len(u) + 1) = <<"[">> \o u \o <<"]">> <=> TokenAt(p, i, u)
  <1> DEFINE n == Len(u)
             s == SubSeq(p, i, i + n + 1)
             w == <<"[">> \o u \o <<"]">>
  <1>1. n \in Nat /\ Len(p) \in Nat /\ i \in Nat /\ i >= 1 /\ i + n + 1 <= Len(p)
    OBVIOUS
  <1>2. Len(s) = n + 2 /\ s \in Seq(C) /\ \A k \in 1 .. n + 2 : s[k] = p[i + k - 1]
    <2> HIDE DEF n
    <2> QED BY <1>1
  <1>3. Len(w) = n + 2 /\ w[1] = "[" /\ w[n + 2] = "]" /\ \A k \in 1 .. n : w[k + 1] = u[k]
    OBVIOUS
  <1>4. w \in Seq(D \cup {"[", "]"})
    OBVIOUS
  <1>5. /\ s[1] = p[i] /\ s[n + 2] = p[i + n + 1]
        /\ \A k \in 1 .. n : s[k + 1] = p[i + k]
    <2> HIDE DEF n, s
    <2>1. 1 \in 1 .. n + 2 /\ n + 2 \in 1 .. n + 2 /\ i + 1 - 1 = i /\ i + (n + 2) - 1 = i + n + 1
      BY <1>1
    <2>2. ASSUME NEW k \in 1 .. n PROVE s[k + 1] = p[i + k]
      <3>1. k + 1 \in 1 .. n + 2 /\ i + (k + 1) - 1 = i + k
        BY <1>1
      <3> QED BY <1>2, <3>1
    <2> QED BY <1>2, <2>1, <2>2
  <1>6. \A k \in 1 .. n + 2 : k = 1 \/ k = n + 2 \/ (k - 1 \in 1 .. n /\ (k - 1) + 1 = k)
    <2> HIDE DEF n
    <2> QED BY <1>1
  <1> HIDE DEF s, w
  <1>7. s = w <=> \A k \in 1 .. n + 2 : s[k] = w[k]
    <2> HIDE DEF n
    <2> QED BY <1>2, <1>3, <1>4
  <1>8. (\A k \in 1 .. n + 2 : s[k] = w[k]) <=>
          (p[i] = "[" /\ p[i + n + 1] = "]" /\ \A k \in 1 .. n : p[i + k] = u[k])
    <2>1. 1 \in 1 .. n + 2 /\ n + 2 \in 1 .. n + 2 /\ \A k \in 1 .. n : k + 1 \in 1 .. n + 2
      <3> HIDE DEF n
      <3> QED BY <1>1
    <2> HIDE DEF n
    <2>2. ASSUME \A k \in 1 .. n + 2 : s[k] = w[k]
          PROVE  p[i] = "[" /\ p[i + n + 1] = "]" /\ \A k \in 1 .. n : p[i + k] = u[k]
      <3>1. s[1] = w[1] /\ s[n + 2] = w[n + 2] /\ \A k \in 1 .. n : s[k + 1] = w[k + 1]
        BY <2>1, <2>2
      <3> QED BY <1>3, <1>5, <3>1
    <2>3. ASSUME p[i] = "[", p[i + n + 1] = "]", \A k \in 1 .. n : p[i + k] = u[k],
                 NEW k \in 1 .. n + 2
          PROVE  s[k] = w[k]
      <3>1. s[1] = w[1] /\ s[n + 2] = w[n + 2]
        BY <1>3, <1>5, <2>3
      <3>2. \A j \in 1 .. n : s[j + 1] = w[j + 1]
        BY <1>3, <1>5, <2>3
      <3> QED BY <1>6, <3>1, <3>2
    <2> QED BY <2>2, <2>3
  <1> QED BY <1>7, <1>8 DEF TokenAt, s, w

(* The pieces of a position, as the scanner distinguishes them.            *)
Doubled(p, i) == p[i] \in Bracket /\ i < Len(p) /\ p[i + 1] = p[i]

Ends(p, i) == {k \in i + 1 .. Len(p) : p[k] = "]"}

Named(p, i) == IF Ends(p, i) = {} THEN << >> ELSE SubSeq(p, i + 1, Min(Ends(p, i)) - 1)

TokensAt(p, i) ==
    {u \in DOMAIN Allowlist :
       /\ i + Len(u) < Len(p)
       /\ SubSeq(p, i, i + Len(u) + 1) = <<"[">> \o u \o <<"]">>}

LEMMA TokensAtAre ==
    ASSUME NEW C, NEW p \in Seq(C), NEW i \in 1 .. Len(p), NEW u \in DOMAIN Allowlist
    PROVE  u \in TokensAt(p, i) <=> TokenAt(p, i, u)
  <1>1. u \in Seq(Char)
    BY TokensAre
  <1>2. CASE i + Len(u) < Len(p)
    <2>1. SubSeq(p, i, i + Len(u) + 1) = <<"[">> \o u \o <<"]">> <=> TokenAt(p, i, u)
      BY <1>1, <1>2, TokenAtIs
    <2> QED BY <1>2, <2>1 DEF TokensAt
  <1>3. CASE ~(i + Len(u) < Len(p))
    BY <1>3 DEF TokensAt, TokenAt
  <1> QED BY <1>2, <1>3

LEMMA NoTokens ==
    ASSUME NEW C, NEW p \in Seq(C), NEW i \in 1 .. Len(p), p[i] # "[" \/ Doubled(p, i)
    PROVE  TokensAt(p, i) = {}
  <1>1. SUFFICES ASSUME NEW u \in TokensAt(p, i) PROVE FALSE
    OBVIOUS
  <1>2. u \in DOMAIN Allowlist
    BY <1>1 DEF TokensAt
  <1>3. TokenAt(p, i, u) /\ Len(u) \in Nat /\ Len(u) >= 1 /\ \A k \in 1 .. Len(u) : u[k] \notin Bracket
    BY <1>1, <1>2, TokensAtAre, TokensAre
  <1>4. p[i] = "[" /\ p[i + 1] = u[1] /\ u[1] \notin Bracket
    BY <1>3 DEF TokenAt
  <1> QED BY <1>4 DEF Doubled, Bracket

LEMMA SameTexts ==
    ASSUME NEW C, NEW s \in Seq(C), NEW D, NEW u \in Seq(D), Len(s) = Len(u),
           \A k \in 1 .. Len(u) : s[k] = u[k]
    PROVE  s = u
  OBVIOUS

(* The token at a bracket is what is read up to the next closing bracket.  *)
LEMMA TokenIsNamed ==
    ASSUME NEW C, NEW p \in Seq(C), NEW i \in 1 .. Len(p), NEW u \in DOMAIN Allowlist
    PROVE  TokenAt(p, i, u) <=>
             p[i] = "[" /\ Ends(p, i) # {} /\ u = Named(p, i)
  <1> DEFINE e == Ends(p, i)
             m == Min(e)
             n == Len(u)
  <1>1. u \in Seq(Char) /\ n \in Nat /\ n >= 1 /\ \A k \in 1 .. n : u[k] \notin Bracket
    BY TokensAre
  <1>2. e \subseteq Nat /\ i \in Nat /\ i >= 1 /\ Len(p) \in Nat
    BY DEF Ends
  <1>3. ASSUME e # {} PROVE m \in e /\ (\A j \in e : m <= j) /\ m \in i + 1 .. Len(p) /\ p[m] = "]"
    BY <1>2, <1>3, MinIs DEF Ends
  <1>4. ASSUME TokenAt(p, i, u) PROVE p[i] = "[" /\ e # {} /\ u = Named(p, i)
    <2>1. /\ i + n < Len(p) /\ p[i] = "[" /\ p[i + n + 1] = "]"
          /\ \A k \in 1 .. n : p[i + k] = u[k]
      BY <1>4 DEF TokenAt
    <2> HIDE DEF n, m
    <2>2. i + n + 1 \in e
      BY <1>1, <1>2, <2>1 DEF Ends
    <2>3. m \in e /\ m <= i + n + 1 /\ m \in i + 1 .. Len(p) /\ p[m] = "]"
      BY <1>3, <2>2
    <2>4. m = i + n + 1
      <3>1. SUFFICES ASSUME m # i + n + 1 PROVE FALSE
        OBVIOUS
      <3>2. m - i \in 1 .. n /\ i + (m - i) = m
        <4> DEFINE j == i
        <4>1. j \in Nat /\ n \in Nat /\ m \in Nat /\ j + 1 <= m /\ m <= j + n + 1 /\ m # j + n + 1
          BY <1>1, <1>2, <2>3, <3>1
        <4> HIDE DEF j
        <4>2. m - j \in 1 .. n /\ j + (m - j) = m
          BY <4>1
        <4> QED BY <4>2 DEF j
      <3>3. p[m] = u[m - i] /\ u[m - i] \notin Bracket
        BY <1>1, <2>1, <3>2
      <3> QED BY <2>3, <3>3 DEF Bracket
    <2>5. Named(p, i) = SubSeq(p, i + 1, i + n)
      <3>1. Named(p, i) = SubSeq(p, i + 1, m - 1)
        BY <2>2 DEF Named, m
      <3>2. m - 1 = i + n
        BY <1>1, <1>2, <2>4
      <3> QED BY <3>1, <3>2
    <2>6. SubSeq(p, i + 1, i + n) = u
      <3> DEFINE s == SubSeq(p, i + 1, i + n)
      <3>1. s \in Seq(C) /\ Len(s) = n /\ \A k \in 1 .. n : s[k] = p[i + k]
        BY <1>1, <1>2, <2>1
      <3> HIDE DEF s
      <3>2. Len(s) = Len(u) /\ \A k \in 1 .. Len(u) : s[k] = u[k]
        BY <2>1, <3>1 DEF n
      <3>3. s = u
        BY <1>1, <3>1, <3>2, SameTexts
      <3> QED BY <3>3 DEF s
    <2> QED BY <2>1, <2>2, <2>5, <2>6
  <1>5. ASSUME p[i] = "[", e # {}, u = Named(p, i) PROVE TokenAt(p, i, u)
    <2>1. u = SubSeq(p, i + 1, m - 1)
      BY <1>5 DEF Named
    <2>2. m \in i + 1 .. Len(p) /\ p[m] = "]"
      BY <1>3, <1>5
    <2> HIDE DEF m, e
    <2>3. Len(u) = m - 1 - i /\ \A k \in 1 .. m - 1 - i : u[k] = p[i + k]
      BY <1>2, <2>1, <2>2
    <2>4. i + n + 1 = m /\ i + n < Len(p)
      BY <1>1, <1>2, <2>2, <2>3
    <2> QED BY <1>5, <2>2, <2>3, <2>4 DEF TokenAt
  <1> QED BY <1>4, <1>5

LEMMA PieceIs ==
    ASSUME NEW p, NEW i, NEW n
    PROVE  Piece(p, i, n) =
             (IF p[i] \notin Bracket THEN {<<i + 1, <<p[i]>>>>} ELSE {})
             \cup (IF Doubled(p, i) THEN {<<i + 2, <<p[i]>>>>} ELSE {})
             \cup {<<i + Len(t) + 2, ResolveTokenValue(t, n)>> : t \in TokensAt(p, i)}
  BY DEF Piece, Bracket, Doubled, TokensAt

LEMMA LiteralPiece ==
    ASSUME NEW C, NEW p \in Seq(C), NEW i \in 1 .. Len(p), NEW n, p[i] \notin Bracket
    PROVE  Piece(p, i, n) = {<<i + 1, <<p[i]>>>>}
  <1>1. TokensAt(p, i) = {} /\ ~Doubled(p, i)
    BY NoTokens DEF Bracket, Doubled
  <1> QED BY <1>1, PieceIs

LEMMA DoubledPiece ==
    ASSUME NEW C, NEW p \in Seq(C), NEW i \in 1 .. Len(p), NEW n, Doubled(p, i)
    PROVE  Piece(p, i, n) = {<<i + 2, <<p[i]>>>>}
  <1>1. TokensAt(p, i) = {} /\ p[i] \in Bracket
    BY NoTokens DEF Doubled
  <1> QED BY <1>1, PieceIs

LEMMA LoneClosePiece ==
    ASSUME NEW C, NEW p \in Seq(C), NEW i \in 1 .. Len(p), NEW n, p[i] = "]", ~Doubled(p, i)
    PROVE  Piece(p, i, n) = {}
  <1>1. TokensAt(p, i) = {} /\ p[i] \in Bracket
    BY NoTokens DEF Bracket
  <1> QED BY <1>1, PieceIs

LEMMA TokenPiece ==
    ASSUME NEW C, NEW p \in Seq(C), NEW i \in 1 .. Len(p), NEW n, p[i] = "[", ~Doubled(p, i)
    PROVE  Piece(p, i, n) =
             IF Named(p, i) \in DOMAIN Allowlist
             THEN {<<Min(Ends(p, i)) + 1, ResolveTokenValue(Named(p, i), n)>>} ELSE {}
  <1> DEFINE t == Named(p, i)
  <1>1. p[i] \in Bracket
    BY DEF Bracket
  <1>2. \A u \in DOMAIN Allowlist : u \in TokensAt(p, i) <=> Ends(p, i) # {} /\ u = t
    BY TokensAtAre, TokenIsNamed
  <1>3. CASE t \notin DOMAIN Allowlist
    <2>1. TokensAt(p, i) = {}
      BY <1>2, <1>3 DEF TokensAt
    <2> QED BY <1>1, <1>3, <2>1, PieceIs
  <1>4. CASE t \in DOMAIN Allowlist
    <2>1. Len(t) >= 1 /\ Len(t) \in Nat
      BY <1>4, TokensAre
    <2>2. Ends(p, i) # {}
      <3>1. SUFFICES ASSUME Ends(p, i) = {} PROVE FALSE
        OBVIOUS
      <3>2. t = << >>
        BY <3>1 DEF Named
      <3> QED BY <2>1, <3>2
    <2>3. TokensAt(p, i) = {t}
      BY <1>2, <1>4, <2>2 DEF TokensAt
    <2>4. i + Len(t) + 2 = Min(Ends(p, i)) + 1
      <3> DEFINE m == Min(Ends(p, i))
      <3>1. Ends(p, i) \subseteq Nat /\ i \in Nat /\ i >= 1 /\ Len(p) \in Nat
        BY DEF Ends
      <3>2. m \in Ends(p, i)
        BY <2>2, <3>1, MinIs
      <3>3. m \in i + 1 .. Len(p)
        BY <3>2 DEF Ends
      <3>4. t = SubSeq(p, i + 1, m - 1)
        BY <2>2 DEF Named
      <3> HIDE DEF m, t
      <3>5. Len(t) = m - 1 - i
        BY <3>1, <3>3, <3>4
      <3>6. i + Len(t) + 2 = m + 1
        BY <3>1, <3>3, <3>5
      <3> QED BY <3>6 DEF m
    <2> HIDE DEF t
    <2>5. {<<i + Len(u) + 2, ResolveTokenValue(u, n)>> : u \in {t}} =
            {<<Min(Ends(p, i)) + 1, ResolveTokenValue(t, n)>>}
      BY <2>4
    <2>6. Piece(p, i, n) = {} \cup {} \cup {<<i + Len(u) + 2, ResolveTokenValue(u, n)>> : u \in {t}}
      BY <1>1, <2>3, PieceIs
    <2> QED BY <1>4, <2>5, <2>6 DEF t
  <1> QED BY <1>3, <1>4

(* Every piece leads on, and not beyond the end.                           *)
LEMMA PieceAhead ==
    ASSUME NEW C, NEW p \in Seq(C), NEW i \in 1 .. Len(p), NEW n, NEW e \in Piece(p, i, n)
    PROVE  e[1] \in i + 1 .. Len(p) + 1
  <1>1. Len(p) \in Nat /\ i \in Nat /\ i >= 1 /\ i <= Len(p)
    OBVIOUS
  <1>2. CASE p[i] \notin Bracket
    <2>1. e[1] = i + 1
      BY <1>2, LiteralPiece
    <2> QED BY <1>1, <2>1
  <1>3. CASE Doubled(p, i)
    <2>1. e[1] = i + 2 /\ i < Len(p)
      BY <1>3, DoubledPiece DEF Doubled
    <2> QED BY <1>1, <2>1
  <1>4. CASE p[i] = "]" /\ ~Doubled(p, i)
    BY <1>4, LoneClosePiece
  <1>5. CASE p[i] = "[" /\ ~Doubled(p, i)
    <2> DEFINE m == Min(Ends(p, i))
    <2>1. Named(p, i) \in DOMAIN Allowlist /\ e[1] = m + 1
      BY <1>5, TokenPiece
    <2>2. Ends(p, i) # {}
      <3>1. Len(Named(p, i)) >= 1
        BY <2>1, TokensAre
      <3> QED BY <3>1 DEF Named
    <2>3. Ends(p, i) \subseteq Nat
      BY <1>1 DEF Ends
    <2>4. m \in Ends(p, i)
      BY <2>2, <2>3, MinIs
    <2>5. m \in i + 1 .. Len(p)
      BY <2>4 DEF Ends
    <2> HIDE DEF m
    <2> QED BY <1>1, <2>1, <2>5
  <1> QED BY <1>2, <1>3, <1>4, <1>5 DEF Bracket

(***************************************************************************)
(* Part 10: meanings.                                                       *)
(***************************************************************************)
(* Induction from the end of a pattern.                                    *)
LEMMA Backwards ==
    ASSUME NEW n \in Nat, NEW G, n + 1 \in G,
           \A i \in 1 .. n : (\A j \in i + 1 .. n + 1 : j \in G) => i \in G
    PROVE  \A i \in 1 .. n + 1 : i \in G
  <1> DEFINE T == {k \in 0 .. n : n + 1 - k \notin G}
  <1>1. SUFFICES ASSUME NEW i \in 1 .. n + 1, i \notin G PROVE FALSE
    OBVIOUS
  <1>2. n + 1 - i \in T
    <2>1. n + 1 - i \in 0 .. n /\ n + 1 - (n + 1 - i) = i
      OBVIOUS
    <2> QED BY <1>1, <2>1
  <1>3. T \subseteq Nat /\ T # {}
    <2>1. T \subseteq Nat
      OBVIOUS
    <2> HIDE DEF T
    <2> QED BY <1>2, <2>1
  <1>4. PICK m \in T : \A j \in T : m <= j
    BY <1>3, LeastOf
  <1>5. m \in 0 .. n /\ n + 1 - m \notin G /\ n + 1 - m \in 1 .. n + 1
    BY <1>4
  <1>6. n + 1 - m \in 1 .. n
    <2>1. n + 1 - m # n + 1
      BY <1>5
    <2> QED BY <1>5, <2>1
  <1>7. ASSUME NEW j \in n + 1 - m + 1 .. n + 1 PROVE j \in G
    <2>1. n + 1 - j \in 0 .. n /\ n + 1 - (n + 1 - j) = j /\ ~(m <= n + 1 - j)
      BY <1>5
    <2>2. n + 1 - j \notin T
      BY <1>4, <2>1
    <2> HIDE DEF T
    <2>3. n + 1 - (n + 1 - j) \in G
      BY <2>1, <2>2 DEF T
    <2> QED BY <2>1, <2>3
  <1> QED BY <1>5, <1>6, <1>7

(* What follows a set of pieces, by what each position means.              *)
After(f, pieces) == UNION {{e[2] \o rest : rest \in f[e[1]]} : e \in pieces}

LEMMA AfterNone ==
    ASSUME NEW f PROVE After(f, {}) = {}
  BY DEF After

LEMMA AfterOne ==
    ASSUME NEW f, NEW i, NEW text
    PROVE  After(f, {<<i, text>>}) = {text \o rest : rest \in f[i]}
  <1> DEFINE e == <<i, text>>
  <1>1. e[1] = i /\ e[2] = text
    OBVIOUS
  <1> HIDE DEF e
  <1>2. ASSUME NEW x PROVE x \in After(f, {e}) <=> x \in {e[2] \o rest : rest \in f[e[1]]}
    BY DEF After
  <1>3. After(f, {e}) = {text \o rest : rest \in f[i]}
    BY <1>1, <1>2
  <1> QED BY <1>3 DEF e

LEMMA AfterSame ==
    ASSUME NEW f, NEW g, NEW pieces, \A e \in pieces : f[e[1]] = g[e[1]]
    PROVE  After(f, pieces) = After(g, pieces)
  <1>1. ASSUME NEW x PROVE x \in After(f, pieces) <=> \E e \in pieces : x \in {e[2] \o rest : rest \in f[e[1]]}
    BY DEF After
  <1>2. ASSUME NEW x PROVE x \in After(g, pieces) <=> \E e \in pieces : x \in {e[2] \o rest : rest \in g[e[1]]}
    BY DEF After
  <1>3. ASSUME NEW e \in pieces
        PROVE  {e[2] \o rest : rest \in f[e[1]]} = {e[2] \o rest : rest \in g[e[1]]}
    <2>1. f[e[1]] = g[e[1]]
      OBVIOUS
    <2> QED BY <2>1
  <1>4. \A x : x \in After(f, pieces) <=> x \in After(g, pieces)
    BY <1>1, <1>2, <1>3
  <1> QED BY <1>4

LEMMA AfterTyped ==
    ASSUME NEW C, NEW f, NEW pieces,
           \A e \in pieces : e[2] \in Seq(C) /\ f[e[1]] \subseteq Seq(C)
    PROVE  After(f, pieces) \subseteq Seq(C)
  <1>1. ASSUME NEW e \in pieces, NEW rest \in f[e[1]] PROVE e[2] \o rest \in Seq(C)
    <2>1. e[2] \in Seq(C) /\ rest \in Seq(C)
      OBVIOUS
    <2> QED BY <2>1
  <1>2. SUFFICES ASSUME NEW x \in After(f, pieces) PROVE x \in Seq(C)
    OBVIOUS
  <1>3. PICK e \in pieces : x \in {e[2] \o rest : rest \in f[e[1]]}
    BY <1>2 DEF After
  <1>4. PICK rest \in f[e[1]] : x = e[2] \o rest
    BY <1>3
  <1> QED BY <1>1, <1>4

(* The texts file n gives to what begins at each position of p.            *)
FromIs(f, p, n) ==
    f = [i \in 1 .. Len(p) + 1 |->
           IF i = Len(p) + 1 THEN {<< >>} ELSE After(f, Piece(p, i, n))]

From(p, n) == CHOOSE f : FromIs(f, p, n)

LEMMA MeaningsAre ==
    ASSUME NEW p, NEW n
    PROVE  Meanings(p, n) = IF p = << >> THEN {} ELSE From(p, n)[1]
  BY DEF Meanings, From, FromIs, After

LEMMA FromRuns ==
    ASSUME NEW C, NEW p \in Seq(C), NEW n
    PROVE  /\ From(p, n)[Len(p) + 1] = {<< >>}
           /\ \A i \in 1 .. Len(p) : From(p, n)[i] = After(From(p, n), Piece(p, i, n))
  <1> DEFINE L == Len(p)
             Part(f, a) == \A i \in a .. L + 1 :
               f[i] = IF i = L + 1 THEN {<< >>} ELSE After(f, Piece(p, i, n))
             G == {a \in 1 .. L + 1 : \E f : Part(f, a)}
  <1>1. L \in Nat
    OBVIOUS
  <1>2. L + 1 \in G
    <2> DEFINE g == [i \in 1 .. L + 1 |-> {<< >>}]
    <2>1. \A i \in L + 1 .. L + 1 : i = L + 1 /\ i \in 1 .. L + 1
      BY <1>1
    <2>2. \A i \in L + 1 .. L + 1 : g[i] = {<< >>}
      BY <2>1
    <2> HIDE DEF g
    <2>3. Part(g, L + 1)
      BY <2>1, <2>2
    <2>4. L + 1 \in 1 .. L + 1
      BY <1>1
    <2> HIDE DEF Part
    <2> QED BY <2>3, <2>4
  <1>3. ASSUME NEW a \in 1 .. L, \A j \in a + 1 .. L + 1 : j \in G PROVE a \in G
    <2>1. a + 1 \in a + 1 .. L + 1
      BY <1>1
    <2>2. PICK f : Part(f, a + 1)
      BY <1>3, <2>1
    <2> DEFINE v == After(f, Piece(p, a, n))
               g == [i \in 1 .. L + 1 |-> IF i = a THEN v ELSE f[i]]
    <2>3. g[a] = v /\ \A i \in 1 .. L + 1 : i # a => g[i] = f[i]
      BY <1>1
    <2> HIDE DEF g
    <2>4. ASSUME NEW i \in a .. L + 1
          PROVE  g[i] = IF i = L + 1 THEN {<< >>} ELSE After(g, Piece(p, i, n))
      <3>1. CASE i = L + 1
        <4>1. i # a /\ i \in 1 .. L + 1 /\ i \in a + 1 .. L + 1
          BY <1>1, <3>1
        <4> QED BY <2>2, <2>3, <3>1, <4>1
      <3>2. CASE i # L + 1
        <4>1. i \in 1 .. L
          BY <1>1, <3>2
        <4>2. ASSUME NEW e \in Piece(p, i, n) PROVE f[e[1]] = g[e[1]]
          <5>1. e[1] \in i + 1 .. L + 1
            BY <4>1, PieceAhead
          <5>2. e[1] \in 1 .. L + 1 /\ e[1] # a
            BY <1>1, <4>1, <5>1
          <5> QED BY <2>3, <5>2
        <4>3. After(f, Piece(p, i, n)) = After(g, Piece(p, i, n))
          BY <4>2, AfterSame
        <4>4. g[i] = After(f, Piece(p, i, n))
          <5>1. CASE i = a
            BY <2>3, <5>1
          <5>2. CASE i # a
            <6>1. i \in a + 1 .. L + 1 /\ i \in 1 .. L + 1
              BY <1>1, <4>1, <5>2
            <6> QED BY <2>2, <2>3, <3>2, <5>2, <6>1
          <5> QED BY <5>1, <5>2
        <4> QED BY <3>2, <4>3, <4>4
      <3> QED BY <3>1, <3>2
    <2>5. Part(g, a)
      BY <2>4
    <2>6. a \in 1 .. L + 1
      BY <1>1
    <2> HIDE DEF Part
    <2> QED BY <2>5, <2>6
  <1>4. 1 \in G
    <2> HIDE DEF G, L
    <2>1. \A a \in 1 .. L + 1 : a \in G
      BY <1>1, <1>2, <1>3, Backwards
    <2> QED BY <1>1, <2>1
  <1>5. PICK f : Part(f, 1)
    BY <1>4
  <1>6. \E g : FromIs(g, p, n)
    <2> DEFINE g == [i \in 1 .. L + 1 |-> f[i]]
    <2>1. \A i \in 1 .. L + 1 : g[i] = f[i]
      OBVIOUS
    <2> HIDE DEF g
    <2>2. ASSUME NEW i \in 1 .. L + 1
          PROVE  f[i] = IF i = L + 1 THEN {<< >>} ELSE After(g, Piece(p, i, n))
      <3>1. CASE i = L + 1
        BY <1>5, <3>1
      <3>2. CASE i # L + 1
        <4>1. i \in 1 .. L
          BY <1>1, <3>2
        <4>2. ASSUME NEW e \in Piece(p, i, n) PROVE f[e[1]] = g[e[1]]
          <5>1. e[1] \in i + 1 .. L + 1
            BY <4>1, PieceAhead
          <5>2. e[1] \in 1 .. L + 1
            BY <1>1, <4>1, <5>1
          <5> QED BY <2>1, <5>2
        <4>3. After(f, Piece(p, i, n)) = After(g, Piece(p, i, n))
          BY <4>2, AfterSame
        <4> QED BY <1>5, <3>2, <4>3
      <3> QED BY <3>1, <3>2
    <2>3. g = [i \in 1 .. L + 1 |-> IF i = L + 1 THEN {<< >>} ELSE After(g, Piece(p, i, n))]
      <3>1. g = [i \in 1 .. L + 1 |-> f[i]]
        BY DEF g
      <3> QED BY <2>2, <3>1
    <2>4. FromIs(g, p, n)
      BY <2>3 DEF FromIs
    <2> QED BY <2>4
  <1>7. FromIs(From(p, n), p, n)
    BY <1>6 DEF From
  <1> DEFINE c == From(p, n)
  <1> HIDE DEF c
  <1>8. \A i \in 1 .. L + 1 : c[i] = IF i = L + 1 THEN {<< >>} ELSE After(c, Piece(p, i, n))
    BY <1>7 DEF FromIs, c
  <1>9. c[L + 1] = {<< >>} /\ \A i \in 1 .. L : c[i] = After(c, Piece(p, i, n))
    <2>1. L + 1 \in 1 .. L + 1 /\ \A i \in 1 .. L : i \in 1 .. L + 1 /\ i # L + 1
      BY <1>1
    <2> HIDE DEF L
    <2> QED BY <1>8, <2>1
  <1> QED BY <1>9 DEF c

(* For a file of the batch, meanings are texts.                            *)
LEMMA PieceTexts ==
    ASSUME NEW p \in Seq(Char), NEW i \in 1 .. Len(p), NEW n \in DOMAIN Batch, NEW e \in Piece(p, i, n)
    PROVE  e[2] \in Seq(Char)
  <1>1. p[i] \in Char
    OBVIOUS
  <1>2. e[2] = <<p[i]>> \/ \E t \in DOMAIN Allowlist : e[2] = ResolveTokenValue(t, n)
    BY PieceIs DEF TokensAt
  <1>3. ASSUME NEW t \in DOMAIN Allowlist PROVE ResolveTokenValue(t, n) \in Seq(Char)
    BY ValueIs
  <1>4. <<p[i]>> \in Seq(Char)
    BY <1>1
  <1> QED BY <1>2, <1>3, <1>4

LEMMA FromTyped ==
    ASSUME NEW p \in Seq(Char), NEW n \in DOMAIN Batch
    PROVE  \A i \in 1 .. Len(p) + 1 : From(p, n)[i] \subseteq Seq(Char)
  <1> DEFINE L == Len(p)
             c == From(p, n)
             G == {i \in 1 .. L + 1 : c[i] \subseteq Seq(Char)}
  <1>1. L \in Nat
    OBVIOUS
  <1>2. c[L + 1] = {<< >>} /\ \A i \in 1 .. L : c[i] = After(c, Piece(p, i, n))
    BY FromRuns
  <1> HIDE DEF c
  <1>3. L + 1 \in G
    <2>1. L + 1 \in 1 .. L + 1
      BY <1>1
    <2>2. << >> \in Seq(Char)
      OBVIOUS
    <2>3. c[L + 1] \subseteq Seq(Char)
      BY <1>2, <2>2
    <2> QED BY <2>1, <2>3
  <1>4. ASSUME NEW i \in 1 .. L, \A j \in i + 1 .. L + 1 : j \in G PROVE i \in G
    <2>1. ASSUME NEW e \in Piece(p, i, n) PROVE e[2] \in Seq(Char) /\ c[e[1]] \subseteq Seq(Char)
      <3>1. e[1] \in i + 1 .. L + 1
        BY PieceAhead
      <3>2. e[2] \in Seq(Char)
        BY PieceTexts
      <3> QED BY <1>4, <3>1, <3>2
    <2>2. After(c, Piece(p, i, n)) \subseteq Seq(Char)
      BY <2>1, AfterTyped
    <2>3. i \in 1 .. L + 1
      BY <1>1
    <2> QED BY <1>2, <2>2, <2>3
  <1> HIDE DEF G, L
  <1>5. \A i \in 1 .. L + 1 : i \in G
    BY <1>1, <1>3, <1>4, Backwards
  <1> QED BY <1>5 DEF G, c, L

(***************************************************************************)
(* Part 11: the scanner.                                                    *)
(***************************************************************************)
ScanTypeOK ==
    /\ config \in Seq(Char) /\ pattern \in Seq(Char) /\ Len(pattern) < PatternSize
    /\ stage \in {"idle", "validating", "rejected", "rendering", "previewed", "failed"}
    /\ stage # "idle" => pattern # << >>
    /\ stage \in {"validating", "rendering"} => pos \in 1 .. Len(pattern) + 1
    /\ rendered \in Seq(Char) /\ Len(rendered) < RenderSize
    /\ drafts \in Seq(Seq(Char)) /\ Len(drafts) <= Len(Batch)
    /\ \A i \in 1 .. Len(drafts) : Len(drafts[i]) < RenderSize
    /\ names \in Seq(Seq(Safe)) /\ Len(names) = Len(drafts)
    /\ \A i \in 1 .. Len(drafts) : names[i] = Finished(drafts[i])
    /\ stage \in {"idle", "validating"} => drafts = << >>
    /\ stage = "rendering" => index = Len(drafts) + 1 /\ index \in 1 .. Len(Batch)

(* What is left of the pattern decides whether it is one; what is rendered *)
(* and what is left are together what the pattern means.                   *)
ScanOK ==
    /\ stage = "validating" => (From(pattern, 1)[pos] = {} <=> From(pattern, 1)[1] = {})
    /\ stage = "rejected" => From(pattern, 1)[1] = {}
    /\ stage \in {"rendering", "previewed"} => From(pattern, 1)[1] # {}
    /\ stage = "rendering" =>
         From(pattern, index)[1] = {rendered \o rest : rest \in From(pattern, index)[pos]}

MadeOK == \A i \in 1 .. Len(drafts) : From(pattern, i)[1] = {drafts[i]}

ConfigOK == config # << >> => Meanings(config, 1) # {}

PatternInv == ScanTypeOK /\ ScanOK /\ MadeOK /\ ConfigOK

LEMMA Constants ==
    /\ PatternSize \in Nat /\ PatternSize >= 2 /\ RenderSize \in Nat /\ RenderSize >= 2
    /\ Len(Batch) \in Nat /\ DOMAIN Batch = 1 .. Len(Batch)
    /\ DefaultPattern \in Seq(Char) /\ DefaultPattern # << >>
    /\ \A r \in FirstPatterns \cup LaterPatterns : r \in Seq(Char)
  <1>1. Batch \in Seq(FileRecord)
    BY BatchAssumption DEF FileRecord
  <1> HIDE DEF FileRecord
  <1>2. Len(Batch) \in Nat /\ DOMAIN Batch = 1 .. Len(Batch)
    BY <1>1
  <1>3. DefaultPattern \in Text /\ DefaultPattern # << >>
    BY PatternAssumption
  <1>4. FirstPatterns \cup LaterPatterns \subseteq Text
    BY PatternAssumption
  <1> QED BY <1>2, <1>3, <1>4, SafeIsText, PatternAssumption

LEMMA NothingBefore ==
    ASSUME NEW C, NEW X, X \subseteq Seq(C)
    PROVE  X = {<< >> \o rest : rest \in X}
  <1>1. ASSUME NEW rest \in X PROVE << >> \o rest = rest
    <2>1. rest \in Seq(C)
      OBVIOUS
    <2> QED BY <2>1
  <1> QED BY <1>1

Before(text, X) == {text \o rest : rest \in X}

LEMMA MoreBefore ==
    ASSUME NEW C, NEW s \in Seq(C), NEW t \in Seq(C), NEW X, X \subseteq Seq(C)
    PROVE  Before(s, Before(t, X)) = Before(s \o t, X)
  <1> DEFINE Y == {t \o q : q \in X}
             Z == {(s \o t) \o q : q \in X}
  <1>1. ASSUME NEW q \in X PROVE s \o (t \o q) = (s \o t) \o q
    <2>1. q \in Seq(C)
      OBVIOUS
    <2> QED BY <2>1
  <1>2. ASSUME NEW r \in Y PROVE s \o r \in Z
    <2>1. PICK q \in X : r = t \o q
      OBVIOUS
    <2>2. s \o r = (s \o t) \o q
      BY <1>1, <2>1
    <2> QED BY <2>2, Zenon
  <1>3. ASSUME NEW z \in Z PROVE \E r \in Y : z = s \o r
    <2>1. PICK q \in X : z = (s \o t) \o q
      OBVIOUS
    <2>2. z = s \o (t \o q) /\ t \o q \in Y
      BY <1>1, <2>1, Zenon
    <2> QED BY <2>2, Zenon
  <1> HIDE DEF Y, Z
  <1>4. {s \o r : r \in Y} = Z
    BY <1>2, <1>3, Zenon
  <1> QED BY <1>4 DEF Y, Z, Before

LEMMA EffectiveIs ==
    ASSUME config \in Seq(Char), NEW asked \in Seq(Char)
    PROVE  /\ EffectivePattern(asked) \in Seq(Char) /\ EffectivePattern(asked) # << >>
           /\ Len(EffectivePattern(asked)) < PatternSize
  <1> DEFINE wanted == IF asked # << >> THEN asked
                       ELSE IF config # << >> THEN config ELSE DefaultPattern
             n == PatternSize - 1
             p == First(wanted, n)
  <1>1. wanted \in Seq(Char) /\ wanted # << >>
    BY Constants
  <1>2. n \in Nat /\ n >= 1 /\ n < PatternSize
    BY Constants
  <1>3. EffectivePattern(asked) = p
    BY DEF EffectivePattern
  <1> HIDE DEF wanted, n
  <1>4. p \in Seq(Char) /\ Len(p) = IF n < Len(wanted) THEN n ELSE Len(wanted)
    BY <1>1, <1>2, FirstIs
  <1>5. Len(wanted) \in Nat /\ Len(wanted) >= 1
    BY <1>1
  <1> HIDE DEF p
  <1>6. Len(p) >= 1 /\ Len(p) <= n /\ Len(p) \in Nat
    BY <1>2, <1>4, <1>5
  <1>7. Len(p) < PatternSize
    BY <1>2, <1>6, Constants
  <1> QED BY <1>3, <1>4, <1>6, <1>7

LEMMA ScanStarts == PatternInit => PatternInv
  <1> SUFFICES ASSUME PatternInit PROVE PatternInv
    OBVIOUS
  <1>1. /\ config = << >> /\ pattern = << >> /\ stage = "idle" /\ rendered = << >>
        /\ names = << >> /\ drafts = << >>
    BY DEF PatternInit
  <1>2. Len(pattern) = 0 /\ Len(rendered) = 0 /\ Len(drafts) = 0 /\ Len(names) = 0
    BY <1>1
  <1>3. ScanTypeOK
    BY <1>1, <1>2, Constants DEF ScanTypeOK
  <1> QED BY <1>1, <1>2, <1>3 DEF PatternInv, ScanOK, MadeOK, ConfigOK

LEMMA BeginKeeps ==
    ASSUME PatternInv, NEW asked \in FirstPatterns \cup LaterPatterns, Begin(asked)
    PROVE  PatternInv'
  <1>1. config \in Seq(Char) /\ asked \in Seq(Char)
    BY Constants DEF PatternInv, ScanTypeOK
  <1>2. /\ pattern' = EffectivePattern(asked) /\ stage' = "validating" /\ pos' = 1
        /\ rendered' = << >> /\ names' = << >> /\ drafts' = << >> /\ config' = config
    BY DEF Begin
  <1>3. pattern' \in Seq(Char) /\ pattern' # << >> /\ Len(pattern') < PatternSize
    BY <1>1, <1>2, EffectiveIs
  <1>4. Len(<< >>) = 0 /\ Len(pattern') \in Nat
    BY <1>3
  <1>5. ScanTypeOK'
    BY <1>1, <1>2, <1>3, <1>4, Constants DEF ScanTypeOK
  <1>6. ScanOK'
    BY <1>2 DEF ScanOK
  <1>7. MadeOK' /\ ConfigOK'
    BY <1>2, <1>4 DEF PatternInv, MadeOK, ConfigOK
  <1> QED BY <1>5, <1>6, <1>7 DEF PatternInv

(* A step over the one piece that is there.                                *)
LEMMA AdvanceKeeps ==
    ASSUME PatternInv, Reading, NEW next, NEW text, Advance(next, text), NEW value,
           stage = "validating" => Piece(pattern, pos, 1) = {<<next, value>>},
           stage = "rendering" => Piece(pattern, pos, index) = {<<next, text>>}
    PROVE  PatternInv'
  <1>1. /\ pattern \in Seq(Char) /\ pos \in 1 .. Len(pattern) /\ Len(pattern) \in Nat
        /\ stage \in {"validating", "rendering"}
    BY DEF PatternInv, ScanTypeOK, Reading
  <1>2. CASE stage = "rendering" /\ Len(rendered) + Len(text) >= RenderSize /\ Fail
    <2>1. /\ stage' = "failed"
          /\ UNCHANGED <<config, pattern, pos, index, rendered, names, drafts, calls, saveFaults>>
      BY <1>2 DEF Fail
    <2>2. ScanTypeOK'
      BY <1>1, <2>1 DEF PatternInv, ScanTypeOK
    <2> QED BY <2>1, <2>2 DEF PatternInv, ScanOK, MadeOK, ConfigOK
  <1>3. CASE /\ stage = "validating" \/ Len(rendered) + Len(text) < RenderSize
             /\ pos' = next
             /\ rendered' = IF stage = "rendering" THEN rendered \o text ELSE rendered
             /\ UNCHANGED <<config, pattern, stage, index, names, drafts, calls, saveFaults>>
    <2>1. CASE stage = "validating"
      <3> DEFINE f == From(pattern, 1)
      <3>1. Piece(pattern, pos, 1) = {<<next, value>>}
        BY <2>1
      <3>2. next \in pos + 1 .. Len(pattern) + 1
        <4>1. <<next, value>>[1] \in pos + 1 .. Len(pattern) + 1
          BY <1>1, <3>1, PieceAhead
        <4> QED BY <4>1
      <3>3. next \in 1 .. Len(pattern) + 1
        BY <1>1, <3>2
      <3>4. f[pos] = {value \o rest : rest \in f[next]}
        <4>1. f[pos] = After(f, Piece(pattern, pos, 1))
          BY <1>1, FromRuns
        <4> HIDE DEF f
        <4> QED BY <3>1, <4>1, AfterOne
      <3>5. f[pos] = {} <=> f[next] = {}
        <4> HIDE DEF f
        <4> QED BY <3>4
      <3>6. ScanTypeOK'
        BY <1>1, <1>3, <2>1, <3>3 DEF PatternInv, ScanTypeOK
      <3>7. ScanOK'
        <4>1. f[pos] = {} <=> f[1] = {}
          BY <2>1 DEF PatternInv, ScanOK
        <4>2. f' = f /\ pos' = next /\ stage' = "validating"
          BY <1>3, <2>1
        <4> QED BY <3>5, <4>1, <4>2 DEF ScanOK
      <3> QED BY <1>3, <3>6, <3>7 DEF PatternInv, MadeOK, ConfigOK
    <2>2. CASE stage = "rendering"
      <3> DEFINE f == From(pattern, index)
      <3>1. Piece(pattern, pos, index) = {<<next, text>>}
        BY <2>2
      <3>2. next \in pos + 1 .. Len(pattern) + 1
        <4>1. <<next, text>>[1] \in pos + 1 .. Len(pattern) + 1
          BY <1>1, <3>1, PieceAhead
        <4> QED BY <4>1
      <3>3. next \in 1 .. Len(pattern) + 1
        BY <1>1, <3>2
      <3>4. f[pos] = {text \o rest : rest \in f[next]}
        <4>1. f[pos] = After(f, Piece(pattern, pos, index))
          BY <1>1, FromRuns
        <4> HIDE DEF f
        <4> QED BY <3>1, <4>1, AfterOne
      <3>5. index \in DOMAIN Batch
        BY <2>2, Constants DEF PatternInv, ScanTypeOK
      <3>6. text \in Seq(Char)
        <4>1. <<next, text>>[2] \in Seq(Char)
          BY <1>1, <3>1, <3>5, PieceTexts
        <4> QED BY <4>1
      <3>7. f[next] \subseteq Seq(Char)
        BY <1>1, <3>3, <3>5, FromTyped
      <3>8. rendered \in Seq(Char) /\ rendered' = rendered \o text /\ Len(rendered) + Len(text) < RenderSize
        BY <1>3, <2>2 DEF PatternInv, ScanTypeOK
      <3>9. rendered' \in Seq(Char) /\ Len(rendered') < RenderSize
        BY <3>6, <3>8
      <3>10. ScanTypeOK'
        BY <1>1, <1>3, <2>2, <3>3, <3>9 DEF PatternInv, ScanTypeOK
      <3>11. f[1] = {rendered' \o rest : rest \in f[next]}
        <4>1. f[1] = {rendered \o rest : rest \in f[pos]}
          BY <2>2 DEF PatternInv, ScanOK
        <4> DEFINE X == f[next]
        <4>2. X \subseteq Seq(Char) /\ f[pos] = Before(text, X) /\ f[1] = Before(rendered, f[pos])
          BY <3>4, <3>7, <4>1 DEF Before
        <4> HIDE DEF f, X
        <4>3. f[1] = Before(rendered \o text, X)
          BY <3>6, <3>8, <4>2, MoreBefore
        <4>4. f[1] = {rendered' \o q : q \in X}
          BY <3>8, <4>3 DEF Before
        <4> QED BY <4>4 DEF X
      <3>12. ScanOK'
        <4>1. f' = f /\ pos' = next /\ stage' = "rendering" /\ pattern' = pattern
          BY <1>3, <2>2
        <4>2. From(pattern, 1)[1] # {}
          BY <2>2 DEF PatternInv, ScanOK
        <4> QED BY <3>11, <4>1, <4>2 DEF ScanOK
      <3> QED BY <1>3, <3>10, <3>12 DEF PatternInv, MadeOK, ConfigOK
    <2> QED BY <1>1, <2>1, <2>2
  <1> QED BY <1>2, <1>3 DEF Advance

(* A stop where there is no piece.                                         *)
LEMMA FailKeeps ==
    ASSUME PatternInv, Reading, Fail, Piece(pattern, pos, 1) = {}
    PROVE  PatternInv'
  <1>1. /\ pattern \in Seq(Char) /\ pos \in 1 .. Len(pattern) /\ Len(pattern) \in Nat
        /\ stage \in {"validating", "rendering"}
    BY DEF PatternInv, ScanTypeOK, Reading
  <1>2. /\ stage' = IF stage = "validating" THEN "rejected" ELSE "failed"
        /\ UNCHANGED <<config, pattern, pos, index, rendered, names, drafts, calls, saveFaults>>
    BY DEF Fail
  <1>3. ScanTypeOK'
    BY <1>1, <1>2 DEF PatternInv, ScanTypeOK
  <1>4. ScanOK'
    <2> DEFINE f == From(pattern, 1)
    <2>1. f[pos] = {}
      <3>1. f[pos] = After(f, Piece(pattern, pos, 1))
        BY <1>1, FromRuns
      <3> HIDE DEF f
      <3> QED BY <3>1, AfterNone
    <2>2. stage = "validating" => f[1] = {}
      BY <2>1 DEF PatternInv, ScanOK
    <2> QED BY <1>2, <2>2 DEF ScanOK
  <1> QED BY <1>2, <1>3, <1>4 DEF PatternInv, MadeOK, ConfigOK

LEMMA ReadingKeeps ==
    ASSUME PatternInv,
           \/ \E c \in {"[", "]"} : Escaped(c)
           \/ Token \/ BadToken \/ LoneClose \/ Literal
    PROVE  PatternInv'
  <1>0. Reading
    BY DEF Escaped, Token, BadToken, LoneClose, Literal, Opens
  <1>1. /\ pattern \in Seq(Char) /\ pos \in 1 .. Len(pattern) /\ Len(pattern) \in Nat /\ pos \in Nat
    BY <1>0 DEF PatternInv, ScanTypeOK, Reading
  <1>2. ASSUME NEW c \in {"[", "]"}, Escaped(c) PROVE PatternInv'
    <2>1. pattern[pos] = c /\ Doubled(pattern, pos) /\ Advance(pos + 2, <<c>>)
      BY <1>1, <1>2 DEF Escaped, At, Doubled, Bracket
    <2>2. \A n : Piece(pattern, pos, n) = {<<pos + 2, <<c>>>>}
      BY <1>1, <2>1, DoubledPiece
    <2> QED BY <1>0, <2>1, <2>2, AdvanceKeeps
  <1>3. CASE Literal
    <2>1. pattern[pos] \notin Bracket /\ Advance(pos + 1, <<pattern[pos]>>)
      BY <1>1, <1>3 DEF Literal, At, Bracket
    <2>2. \A n : Piece(pattern, pos, n) = {<<pos + 1, <<pattern[pos]>>>>}
      BY <1>1, <2>1, LiteralPiece
    <2> QED BY <1>0, <2>1, <2>2, AdvanceKeeps
  <1>4. CASE LoneClose
    <2>1. pattern[pos] = "]" /\ ~Doubled(pattern, pos) /\ Fail
      BY <1>1, <1>4 DEF LoneClose, At, Doubled
    <2>2. Piece(pattern, pos, 1) = {}
      BY <1>1, <2>1, LoneClosePiece
    <2> QED BY <1>0, <2>1, <2>2, FailKeeps
  <1>5. ASSUME Opens
        PROVE  /\ pattern[pos] = "[" /\ ~Doubled(pattern, pos)
               /\ Closers = Ends(pattern, pos) /\ TokenText = Named(pattern, pos)
    <2>1. pattern[pos] = "[" /\ ~Doubled(pattern, pos)
      BY <1>1, <1>5 DEF Opens, At, Doubled
    <2>2. Closers = Ends(pattern, pos)
      BY DEF Closers, Ends
    <2> QED BY <2>1, <2>2 DEF TokenText, Named
  <1>6. CASE BadToken
    <2>1. Opens /\ TokenText \notin DOMAIN Allowlist /\ Fail
      BY <1>6 DEF BadToken
    <2>2. Piece(pattern, pos, 1) = {}
      BY <1>1, <1>5, <2>1, TokenPiece
    <2> QED BY <1>0, <2>1, <2>2, FailKeeps
  <1>7. CASE Token
    <2> DEFINE next == Min(Closers) + 1
               value(n) == ResolveTokenValue(TokenText, n)
               text == IF stage = "rendering" THEN value(index) ELSE << >>
    <2>1. Opens /\ TokenText \in DOMAIN Allowlist /\ Advance(next, text)
      BY <1>7 DEF Token
    <2>2. \A n : Piece(pattern, pos, n) = {<<next, value(n)>>}
      BY <1>1, <1>5, <2>1, TokenPiece
    <2>3. stage = "rendering" => Piece(pattern, pos, index) = {<<next, text>>}
      BY <2>2
    <2>4. stage = "validating" => Piece(pattern, pos, 1) = {<<next, value(1)>>}
      BY <2>2
    <2> HIDE DEF next, value, text
    <2> QED BY <1>0, <2>1, <2>3, <2>4, AdvanceKeeps
  <1> QED BY <1>2, <1>3, <1>4, <1>6, <1>7

(* The end of the pattern has been reached.                                *)
LEMMA AtTheEnd ==
    ASSUME PatternInv, stage \in {"validating", "rendering"}, pos > Len(pattern)
    PROVE  pattern # << >> /\ \A n : From(pattern, n)[pos] = {<< >>}
  <1>1. pattern \in Seq(Char) /\ pos \in 1 .. Len(pattern) + 1 /\ Len(pattern) \in Nat /\ pattern # << >>
    BY DEF PatternInv, ScanTypeOK
  <1>2. pos = Len(pattern) + 1
    BY <1>1
  <1> QED BY <1>1, <1>2, FromRuns

LEMMA SaveKeeps ==
    ASSUME PatternInv, SaveDefault
    PROVE  PatternInv'
  <1>1. /\ stage = "validating" /\ pos > Len(pattern) /\ config' = pattern
        /\ stage' = IF Batch = << >> THEN "previewed" ELSE "rendering"
        /\ pos' = 1 /\ index' = 1 /\ rendered' = << >>
        /\ UNCHANGED <<pattern, names, drafts>>
    BY DEF SaveDefault, Rendering
  <1>2. pattern # << >> /\ From(pattern, 1)[pos] = {<< >>}
    BY <1>1, AtTheEnd
  <1>3. From(pattern, 1)[1] # {}
    BY <1>1, <1>2 DEF PatternInv, ScanOK
  <1>4. pattern \in Seq(Char) /\ Len(pattern) \in Nat /\ drafts = << >> /\ Len(drafts) = 0
    BY <1>1 DEF PatternInv, ScanTypeOK
  <1>5. Batch # << >> => Len(Batch) >= 1
    <2>1. Batch \in Seq(FileRecord)
      BY BatchAssumption DEF FileRecord
    <2> HIDE DEF FileRecord
    <2> QED BY <2>1
  <1>6. ScanTypeOK'
    BY <1>1, <1>2, <1>4, <1>5, Constants DEF PatternInv, ScanTypeOK
  <1>7. ScanOK'
    <2>1. CASE Batch = << >>
      BY <1>1, <1>3, <2>1 DEF ScanOK
    <2>2. CASE Batch # << >>
      <3>1. 1 \in DOMAIN Batch
        BY <1>5, <2>2, Constants
      <3>2. From(pattern, 1)[1] \subseteq Seq(Char)
        <4>1. 1 \in 1 .. Len(pattern) + 1
          BY <1>4
        <4> QED BY <1>4, <3>1, <4>1, FromTyped
      <3>3. From(pattern, 1)[1] = {<< >> \o rest : rest \in From(pattern, 1)[1]}
        BY <3>2, NothingBefore
      <3> QED BY <1>1, <1>3, <2>2, <3>3 DEF ScanOK
    <2> QED BY <2>1, <2>2
  <1>8. ConfigOK'
    <2>1. Meanings(pattern, 1) # {}
      BY <1>2, <1>3, MeaningsAre
    <2> QED BY <1>1, <2>1 DEF ConfigOK
  <1> QED BY <1>1, <1>6, <1>7, <1>8 DEF PatternInv, MadeOK

LEMMA SaveFailsKeeps ==
    ASSUME PatternInv, SaveDefaultFails
    PROVE  PatternInv'
  <1>1. /\ stage' = "failed" /\ config' \in {config, << >>} /\ stage = "validating"
        /\ UNCHANGED <<pattern, pos, index, rendered, names, drafts>>
    BY DEF SaveDefaultFails
  <1>2. ScanTypeOK'
    <2>1. config \in Seq(Char)
      BY DEF PatternInv, ScanTypeOK
    <2>2. << >> \in Seq(Char)
      OBVIOUS
    <2>3. config' \in Seq(Char)
      BY <1>1, <2>1, <2>2, Zenon
    <2> QED BY <1>1, <2>3 DEF PatternInv, ScanTypeOK
  <1> QED BY <1>1, <1>2 DEF PatternInv, ScanOK, MadeOK, ConfigOK

LEMMA EndKeeps ==
    ASSUME PatternInv, EndName
    PROVE  PatternInv'
  <1>1. /\ stage = "rendering" /\ pos > Len(pattern)
        /\ names' = Append(names, Finished(rendered)) /\ drafts' = Append(drafts, rendered)
        /\ stage' = IF index = Len(Batch) THEN "previewed" ELSE "rendering"
        /\ pos' = 1 /\ index' = index + 1 /\ rendered' = << >>
        /\ UNCHANGED <<config, pattern>>
    BY DEF EndName
  <1>2. /\ pattern \in Seq(Char) /\ Len(pattern) \in Nat /\ pattern # << >>
        /\ rendered \in Seq(Char) /\ drafts \in Seq(Seq(Char)) /\ names \in Seq(Seq(Safe))
        /\ index = Len(drafts) + 1 /\ index \in 1 .. Len(Batch) /\ Len(names) = Len(drafts)
        /\ \A i \in 1 .. Len(drafts) : names[i] = Finished(drafts[i])
    BY <1>1 DEF PatternInv, ScanTypeOK
  <1>3. From(pattern, index)[1] = {rendered}
    <2>1. From(pattern, index)[pos] = {<< >>}
      BY <1>1, AtTheEnd
    <2>2. From(pattern, index)[1] = {rendered \o rest : rest \in From(pattern, index)[pos]}
      BY <1>1 DEF PatternInv, ScanOK
    <2>3. rendered \o << >> = rendered
      BY <1>2
    <2> QED BY <2>1, <2>2, <2>3
  <1>4. Finished(rendered) \in Seq(Safe)
    BY <1>2, FinishedIsSafe DEF SafeName
  <1>5. /\ drafts' \in Seq(Seq(Char)) /\ Len(drafts') = index /\ drafts'[index] = rendered
        /\ \A i \in 1 .. Len(drafts) : drafts'[i] = drafts[i]
    BY <1>1, <1>2
  <1>6. /\ names' \in Seq(Seq(Safe)) /\ Len(names') = index /\ names'[index] = Finished(rendered)
        /\ \A i \in 1 .. Len(drafts) : names'[i] = names[i]
    BY <1>1, <1>2, <1>4
  <1>7. \A i \in 1 .. index : i = index \/ i \in 1 .. Len(drafts)
    BY <1>2
  <1>8. \A i \in 1 .. Len(drafts') : names'[i] = Finished(drafts'[i])
    BY <1>2, <1>5, <1>6, <1>7
  <1>9. \A i \in 1 .. Len(drafts') : Len(drafts'[i]) < RenderSize
    <2>1. Len(rendered) < RenderSize /\ \A i \in 1 .. Len(drafts) : Len(drafts[i]) < RenderSize
      BY DEF PatternInv, ScanTypeOK
    <2> QED BY <1>5, <1>7, <2>1
  <1>10. MadeOK'
    <2>1. \A i \in 1 .. Len(drafts) : From(pattern, i)[1] = {drafts[i]}
      BY DEF PatternInv, MadeOK
    <2>2. \A i \in 1 .. Len(drafts') : From(pattern, i)[1] = {drafts'[i]}
      BY <1>3, <1>5, <1>7, <2>1
    <2> QED BY <1>1, <2>2 DEF MadeOK
  <1>11. index' = Len(drafts') + 1 /\ (stage' = "rendering" => index' \in 1 .. Len(Batch))
    <2> DEFINE n == Len(Batch)
    <2>1. n \in Nat /\ index \in 1 .. n /\ index' = index + 1 /\ Len(drafts') = index
      BY <1>1, <1>2, <1>5, Constants
    <2>2. stage' = "rendering" => index # n
      BY <1>1
    <2> HIDE DEF n
    <2>3. index' = Len(drafts') + 1 /\ (index # n => index' \in 1 .. n)
      BY <2>1
    <2> QED BY <2>2, <2>3 DEF n
  <1>12. ScanTypeOK'
    <2>1. Len(<< >>) = 0 /\ << >> \in Seq(Char)
      OBVIOUS
    <2>2. Len(drafts') <= Len(Batch)
      BY <1>2, <1>5, Constants
    <2>3. stage' \in {"previewed", "rendering"} /\ 1 \in 1 .. Len(pattern) + 1
      BY <1>1, <1>2
    <2>4. /\ config' \in Seq(Char) /\ pattern' \in Seq(Char) /\ Len(pattern') < PatternSize
          /\ pattern' # << >> /\ pos' \in 1 .. Len(pattern') + 1
          /\ rendered' \in Seq(Char) /\ Len(rendered') < RenderSize
      <3>1. config \in Seq(Char) /\ Len(pattern) < PatternSize
        BY DEF PatternInv, ScanTypeOK
      <3>2. config' = config /\ pattern' = pattern /\ pos' = 1 /\ rendered' = << >>
        BY <1>1
      <3>3. Len(rendered') < RenderSize /\ rendered' \in Seq(Char)
        BY <2>1, <3>2, Constants
      <3>4. pos' \in 1 .. Len(pattern') + 1
        BY <2>3, <3>2
      <3> QED BY <1>2, <3>1, <3>2, <3>3, <3>4
    <2>5. /\ drafts' \in Seq(Seq(Char)) /\ Len(drafts') <= Len(Batch)
          /\ names' \in Seq(Seq(Safe)) /\ Len(names') = Len(drafts')
      BY <1>5, <1>6, <2>2
    <2> QED BY <1>8, <1>11, <1>9, <2>3, <2>4, <2>5 DEF ScanTypeOK
  <1>13. ScanOK'
    <2>1. From(pattern, 1)[1] # {}
      BY <1>1 DEF PatternInv, ScanOK
    <2>2. ASSUME stage' = "rendering"
          PROVE  From(pattern, index')[1] = {<< >> \o rest : rest \in From(pattern, index')[1]}
      <3>1. index' \in DOMAIN Batch /\ 1 \in 1 .. Len(pattern) + 1
        BY <1>2, <1>11, <2>2, Constants
      <3>2. From(pattern, index')[1] \subseteq Seq(Char)
        BY <1>2, <3>1, FromTyped
      <3> QED BY <3>2, NothingBefore
    <2> QED BY <1>1, <2>1, <2>2 DEF ScanOK
  <1> QED BY <1>1, <1>10, <1>12, <1>13 DEF PatternInv, ConfigOK

LEMMA ScanSteps == PatternInv /\ [PatternNext]_patternVars => PatternInv'
  <1> SUFFICES ASSUME PatternInv, [PatternNext]_patternVars PROVE PatternInv'
    OBVIOUS
  <1>1. ASSUME NEW asked \in FirstPatterns \cup LaterPatterns, Begin(asked) PROVE PatternInv'
    BY <1>1, BeginKeeps
  <1>2. CASE \/ \E c \in {"[", "]"} : Escaped(c)
             \/ Token \/ BadToken \/ LoneClose \/ Literal
    BY <1>2, ReadingKeeps
  <1>3. CASE SaveDefault
    BY <1>3, SaveKeeps
  <1>4. CASE SaveDefaultFails
    BY <1>4, SaveFailsKeeps
  <1>5. CASE EndName
    BY <1>5, EndKeeps
  <1>6. CASE UNCHANGED patternVars
    <2>1. UNCHANGED <<config, pattern, stage, pos, index, rendered, names, drafts>>
      BY <1>6 DEF patternVars
    <2>2. ScanTypeOK'
      BY <2>1 DEF PatternInv, ScanTypeOK
    <2>3. ScanOK'
      BY <2>1 DEF PatternInv, ScanOK
    <2>4. MadeOK' /\ ConfigOK'
      BY <2>1 DEF PatternInv, MadeOK, ConfigOK
    <2> QED BY <2>2, <2>3, <2>4 DEF PatternInv
  <1> QED BY <1>1, <1>2, <1>3, <1>4, <1>5, <1>6 DEF PatternNext

(* The scanner's invariant: what it has read and what is left of a pattern *)
(* are together what the pattern means, in every state.                    *)
THEOREM ScansKeepMeaning == PatternSpec => []PatternInv
  BY ScanStarts, ScanSteps, PTL DEF PatternSpec

(* The scanner, which never looks back, rejects only what is no pattern of *)
(* the language, accepts only what is one, and a name's text is the one    *)
(* meaning of its pattern, for every pattern, allowlist and batch.         *)
THEOREM RenderingIsMeaning == PatternSpec => []RenderedIsMeaning
  <1>1. PatternInv => RenderedIsMeaning
    <2> SUFFICES ASSUME PatternInv PROVE RenderedIsMeaning
      OBVIOUS
    <2>1. DOMAIN drafts = 1 .. Len(drafts) /\ (stage # "idle" => pattern # << >>)
      BY DEF PatternInv, ScanTypeOK
    <2>2. stage = "rejected" => Meanings(pattern, 1) = {}
      BY MeaningsAre DEF PatternInv, ScanOK
    <2>3. stage \in {"rendering", "previewed"} => Meanings(pattern, 1) # {}
      BY <2>1, MeaningsAre DEF PatternInv, ScanOK
    <2>4. ASSUME NEW i \in DOMAIN drafts PROVE Meanings(pattern, i) = {drafts[i]}
      <3>1. drafts # << >>
        BY <2>1
      <3>2. pattern # << >>
        BY <2>1, <3>1 DEF PatternInv, ScanTypeOK
      <3> QED BY <2>1, <3>2, MeaningsAre DEF PatternInv, MadeOK
    <2> QED BY <2>2, <2>3, <2>4 DEF RenderedIsMeaning
  <1> QED BY <1>1, ScansKeepMeaning, PTL

(* Every candidate name stays in its directory, begins and ends with a     *)
(* letter or digit and fits, whatever pattern and metadata hold.           *)
THEOREM NamesAreSafe == PatternSpec => []NameIsSafe
  <1>1. PatternInv => NameIsSafe
    <2> SUFFICES ASSUME PatternInv PROVE NameIsSafe
      OBVIOUS
    <2>1. Len(pattern) < PatternSize /\ Len(rendered) < RenderSize /\ drafts \in Seq(Seq(Char))
      BY DEF PatternInv, ScanTypeOK
    <2>2. ASSUME NEW i \in DOMAIN names
          PROVE  /\ Len(names[i]) \in 1 .. NameMax
                 /\ \A k \in DOMAIN names[i] : names[i][k] \in Range(Lower) \cup Marks
                 /\ names[i][1] \notin Marks /\ Last(names[i]) \notin Marks
      <3>1. i \in 1 .. Len(drafts) /\ names[i] = Finished(drafts[i])
        BY DEF PatternInv, ScanTypeOK
      <3>2. drafts[i] \in Seq(Char)
        BY <2>1, <3>1
      <3> DEFINE name == names[i]
      <3>3. SafeName(name) /\ Len(name) <= NameMax /\ NameMax \in Nat
        BY <3>1, <3>2, FinishedIsSafe, NameMaxAssumption
      <3> HIDE DEF name
      <3>4. name \in Seq(Safe) /\ name # << >> /\ name[1] \notin Marks /\ name[Len(name)] \notin Marks
        BY <3>3 DEF SafeName
      <3>5. Len(name) \in 1 .. NameMax
        BY <3>3, <3>4
      <3>6. \A k \in DOMAIN name : name[k] \in Range(Lower) \cup Marks
        BY <3>4 DEF Safe
      <3> QED BY <3>4, <3>5, <3>6 DEF name, Last
    <2> QED BY <2>1, <2>2 DEF NameIsSafe
  <1> QED BY <1>1, ScansKeepMeaning, PTL

(* The pattern that was saved is always one that a preview can use, also   *)
(* when it was cut to its buffer and after writes that failed.             *)
THEOREM DefaultsAreUsable == PatternSpec => []DefaultIsUsable
  <1>1. PatternInv => DefaultIsUsable
    BY DEF PatternInv, ConfigOK, DefaultIsUsable
  <1> QED BY <1>1, ScansKeepMeaning, PTL

(***************************************************************************)
(* Part 12: extensions.  The end of a name, from a letter on, goes through  *)
(* the slug as it is, and shortening keeps what follows the last dot.       *)
(***************************************************************************)
EndsIn(text, tail) ==
    /\ Len(tail) <= Len(text)
    /\ \A k \in 1 .. Len(tail) : text[Len(text) - Len(tail) + k] = tail[k]

LEMMA EndsAfter ==
    ASSUME NEW C, NEW v \in Seq(C), NEW rest \in Seq(C), NEW tail \in Seq(C), EndsIn(rest, tail)
    PROVE  EndsIn(v \o rest, tail)
  <1> DEFINE x == v \o rest
             a == Len(v)
             b == Len(rest)
             n == Len(tail)
  <1>1. a \in Nat /\ b \in Nat /\ n \in Nat /\ n <= b
    BY DEF EndsIn
  <1>2. Len(x) = a + b /\ \A j \in 1 .. b : x[a + j] = rest[j]
    OBVIOUS
  <1>3. \A k \in 1 .. n : rest[b - n + k] = tail[k]
    BY DEF EndsIn
  <1> HIDE DEF x, a, b, n
  <1>4. ASSUME NEW k \in 1 .. n PROVE x[Len(x) - n + k] = tail[k]
    <2>1. b - n + k \in 1 .. b /\ a + (b - n + k) = (a + b) - n + k
      BY <1>1
    <2> QED BY <1>2, <1>3, <2>1
  <1>5. n <= Len(x)
    BY <1>1, <1>2
  <1> QED BY <1>4, <1>5 DEF EndsIn, x, n

LEMMA EndsWithin ==
    ASSUME NEW C, NEW text \in Seq(C), NEW tail \in Seq(C), NEW end \in Seq(C),
           EndsIn(text, tail), EndsIn(tail, end)
    PROVE  EndsIn(text, end)
  <1> DEFINE a == Len(text)
             b == Len(tail)
             n == Len(end)
  <1>1. a \in Nat /\ b \in Nat /\ n \in Nat /\ n <= b /\ b <= a
    BY DEF EndsIn
  <1>2. /\ \A k \in 1 .. b : text[a - b + k] = tail[k]
        /\ \A k \in 1 .. n : tail[b - n + k] = end[k]
    BY DEF EndsIn
  <1> HIDE DEF a, b, n
  <1>3. ASSUME NEW k \in 1 .. n PROVE text[a - n + k] = end[k]
    <2>1. b - n + k \in 1 .. b /\ a - b + (b - n + k) = a - n + k
      BY <1>1
    <2> QED BY <1>2, <2>1
  <1>4. n <= a
    BY <1>1
  <1> QED BY <1>3, <1>4 DEF EndsIn, a, n

(* The end of a text is not squeezed where no marks follow one another.    *)
LEMMA SqueezeKeeps ==
    ASSUME NEW T, NEW text \in Seq(T), NEW tail \in Seq(T), NEW marks, NEW size \in Nat,
           EndsIn(text, tail), Tidy(tail, marks), tail # << >>, tail[1] \notin marks,
           Len(text) < size
    PROVE  EndsIn(Squeeze(text, marks, size), tail)
  <1> DEFINE n == Len(text)
             b == Len(tail)
             a == n - b
             f == SqueezeRun(text, marks, size)
  <1>1. /\ f \in [0 .. n -> Seq(T)] /\ f[0] = << >>
        /\ \A i \in 1 .. n : f[i] = SqueezeChar(f[i - 1], text[i], marks, size)
        /\ Squeeze(text, marks, size) = f[n]
    BY SqueezeRuns
  <1> HIDE DEF f
  <1>2. n \in Nat /\ b \in Nat /\ b >= 1 /\ b <= n /\ a \in Nat /\ n = a + b /\ n < size
    BY DEF EndsIn
  <1>3. /\ \A k \in 1 .. b : text[a + k] = tail[k]
        /\ \A k \in 1 .. b - 1 : ~(tail[k] \in marks /\ tail[k + 1] \in marks)
        /\ tail[1] \notin marks /\ \A i \in 1 .. n : text[i] \in T
    BY DEF EndsIn, Tidy
  <1> HIDE DEF n, b, a
  <1> DEFINE Kept(s, j) == j <= Len(s) /\ \A k \in 1 .. j : s[Len(s) - j + k] = tail[k]
             G == {i \in 0 .. n : Len(f[i]) <= i /\ (i > a => Kept(f[i], i - a))}
  <1>4. 0 \in G
    <2>1. 0 \in 0 .. n /\ ~(0 > a) /\ Len(<< >>) = 0
      BY <1>2
    <2> QED BY <1>1, <2>1
  <1>5. ASSUME NEW i \in 1 .. n, i - 1 \in G PROVE i \in G
    <2> DEFINE s == f[i - 1]
               c == text[i]
               q == Len(s)
               j == i - a
    <2>1. s \in Seq(T) /\ c \in T /\ i \in 0 .. n /\ q \in Nat /\ i \in Nat /\ i <= n /\ i >= 1
      BY <1>1, <1>2, <1>3
    <2>2. f[i] = SqueezeChar(s, c, marks, size) /\ q <= i - 1 /\ (i - 1 > a => Kept(s, (i - 1) - a))
      BY <1>1, <1>5
    <2>3. ~(q + 1 >= size)
      BY <1>2, <2>1, <2>2
    <2>4. Len(Append(s, c)) = q + 1 /\ Append(s, c)[q + 1] = c /\ \A k \in 1 .. q : Append(s, c)[k] = s[k]
      BY <2>1
    <2> HIDE DEF s, c
    <2>5. CASE i <= a
      <3>1. f[i] = s \/ f[i] = Append(s, c)
        BY <2>2 DEF SqueezeChar
      <3>2. Len(f[i]) <= i
        BY <2>1, <2>2, <2>4, <3>1
      <3>3. ~(i > a)
        BY <1>2, <2>1, <2>5
      <3> QED BY <2>1, <3>2, <3>3
    <2>6. CASE i > a
      <3>1. j \in 1 .. b /\ i = a + j /\ j \in Nat /\ j >= 1
        BY <1>2, <2>1, <2>6
      <3>2. c = tail[j]
        BY <1>3, <3>1 DEF c
      <3>3. ASSUME j > 1 PROVE /\ Kept(s, j - 1) /\ q >= 1 /\ s[q] = tail[j - 1]
        <4>1. i - 1 > a /\ (i - 1) - a = j - 1
          BY <1>2, <2>1, <3>1, <3>3
        <4>2. Kept(s, j - 1)
          BY <2>2, <4>1
        <4>3. j - 1 \in 1 .. j - 1 /\ q - (j - 1) + (j - 1) = q
          BY <2>1, <3>1, <3>3
        <4>4. s[q] = tail[j - 1] /\ j - 1 <= q
          BY <4>2, <4>3
        <4>5. q >= 1
          BY <2>1, <3>1, <3>3, <4>4
        <4> QED BY <4>2, <4>4, <4>5
      <3>4. ~(c \in marks /\ s # << >> /\ Last(s) \in marks)
        <4>1. CASE j = 1
          BY <1>3, <3>2, <4>1
        <4>2. CASE j # 1
          <5>1. j > 1 /\ j - 1 \in 1 .. b - 1 /\ (j - 1) + 1 = j
            BY <1>2, <3>1, <4>2
          <5>2. ~(tail[j - 1] \in marks /\ tail[j] \in marks)
            BY <1>3, <5>1
          <5>3. Last(s) = tail[j - 1]
            BY <3>3, <5>1 DEF Last
          <5> QED BY <3>2, <5>2, <5>3
        <4> QED BY <4>1, <4>2
      <3>5. f[i] = Append(s, c)
        BY <2>2, <2>3, <3>4 DEF SqueezeChar
      <3> DEFINE r == f[i]
      <3>6. Len(r) = q + 1 /\ r[q + 1] = c /\ \A k \in 1 .. q : r[k] = s[k]
        BY <2>4, <3>5
      <3> HIDE DEF r, q, j
      <3>7. j <= q + 1
        <4>1. CASE j = 1
          BY <2>1, <4>1
        <4>2. CASE j # 1
          <5>1. j > 1
            BY <3>1, <4>2
          <5>2. j - 1 <= q
            BY <3>3, <5>1 DEF q
          <5> QED BY <2>1, <3>1, <5>2
        <4> QED BY <4>1, <4>2
      <3>8. ASSUME NEW k \in 1 .. j PROVE r[(q + 1) - j + k] = tail[k]
        <4>1. CASE k = j
          <5>1. (q + 1) - j + k = q + 1
            BY <2>1, <3>1, <4>1
          <5> QED BY <3>2, <3>6, <4>1, <5>1
        <4>2. CASE k # j
          <5>1. j > 1 /\ k \in 1 .. j - 1
            BY <3>1, <4>2
          <5>2. (q + 1) - j + k = q - (j - 1) + k /\ q - (j - 1) + k \in 1 .. q
            BY <2>1, <3>1, <3>7, <5>1
          <5>3. s[q - (j - 1) + k] = tail[k]
            BY <3>3, <5>1 DEF q
          <5> QED BY <3>6, <5>2, <5>3
        <4> QED BY <4>1, <4>2
      <3>9. Kept(r, j)
        BY <3>6, <3>7, <3>8
      <3>10. Len(r) <= i
        BY <2>1, <2>2, <3>6
      <3> QED BY <2>1, <3>9, <3>10 DEF r, j
    <2>7. i <= a \/ i > a
      BY <1>2, <2>1
    <2> QED BY <2>5, <2>6, <2>7
  <1> HIDE DEF G
  <1>6. \A i \in 0 .. n : i \in G
    BY <1>2, <1>4, <1>5, Induction
  <1>7. n \in 0 .. n /\ n > a /\ n - a = b
    BY <1>2
  <1>8. Kept(f[n], b)
    BY <1>6, <1>7 DEF G
  <1> QED BY <1>1, <1>8 DEF EndsIn, b

(* Nor is it trimmed, when it begins and ends with a letter.               *)
LEMMA TrimKeeps ==
    ASSUME NEW T, NEW text \in Seq(T), NEW tail \in Seq(T), NEW marks,
           EndsIn(text, tail), tail # << >>, tail[1] \notin marks, tail[Len(tail)] \notin marks
    PROVE  EndsIn(Trim(text, marks), tail)
  <1> DEFINE n == Len(text)
             b == Len(tail)
             kept == {i \in DOMAIN text : text[i] \notin marks}
             lo == Min(kept)
             hi == Max(kept)
             s == Trim(text, marks)
  <1>1. n \in Nat /\ b \in Nat /\ b >= 1 /\ b <= n /\ DOMAIN text = 1 .. n
    BY DEF EndsIn
  <1>2. \A k \in 1 .. b : text[n - b + k] = tail[k]
    BY DEF EndsIn
  <1>3. n \in kept /\ n - b + 1 \in kept
    <2>1. n - b + b = n /\ b \in 1 .. b /\ 1 \in 1 .. b /\ n - b + 1 \in 1 .. n /\ n \in 1 .. n
      BY <1>1
    <2> HIDE DEF n, b
    <2>2. text[n] = tail[b] /\ text[n - b + 1] = tail[1]
      BY <1>2, <2>1
    <2> QED BY <1>1, <2>1, <2>2 DEF b
  <1>4. kept \subseteq 0 .. n /\ kept \subseteq Nat /\ \A i \in kept : i <= n /\ i >= 1
    BY <1>1
  <1>5. kept # {} /\ s = SubSeq(text, lo, hi)
    <2>1. kept # {}
      BY <1>3
    <2> QED BY <2>1 DEF Trim
  <1>6. lo \in kept /\ lo <= n - b + 1 /\ hi \in kept /\ n <= hi
    <2> HIDE DEF kept
    <2>1. lo \in kept /\ \A i \in kept : lo <= i
      BY <1>4, <1>5, MinIs
    <2>2. hi \in kept /\ \A i \in kept : i <= hi
      BY <1>1, <1>4, <1>5, MaxIs
    <2> QED BY <1>3, <2>1, <2>2
  <1>7. hi = n /\ lo \in Nat /\ lo >= 1
    <2> HIDE DEF kept, lo, hi, n
    <2>1. hi \in Nat /\ hi <= n /\ lo \in Nat /\ lo >= 1
      BY <1>4, <1>6
    <2> QED BY <1>1, <1>6, <2>1
  <1> HIDE DEF kept, lo, hi, s
  <1>8. Len(s) = n - lo + 1 /\ \A k \in 1 .. n - lo + 1 : s[k] = text[lo + k - 1]
    BY <1>1, <1>5, <1>6, <1>7
  <1> HIDE DEF n, b
  <1>9. ASSUME NEW k \in 1 .. b PROVE s[Len(s) - b + k] = tail[k]
    <2>1. (n - lo + 1) - b + k \in 1 .. n - lo + 1 /\ lo + ((n - lo + 1) - b + k) - 1 = n - b + k
      BY <1>1, <1>6, <1>7
    <2> QED BY <1>2, <1>8, <2>1
  <1>10. b <= Len(s)
    BY <1>1, <1>6, <1>7, <1>8
  <1> QED BY <1>9, <1>10 DEF EndsIn, b, s

LEMMA SlugCharStays ==
    ASSUME NEW c \in Safe PROVE SlugChar(c) = c
  <1>1. CASE c \in Range(Lower)
    <2>1. c \in DOMAIN Lower /\ Lower[c] = c
      BY <1>1, Letters
    <2> QED BY <2>1 DEF SlugChar, Alphanumeric
  <1>2. CASE c \in Marks
    <2>1. c \notin DOMAIN Lower
      BY <1>2, LowerAssumption
    <2> QED BY <1>2, <2>1 DEF SlugChar, Alphanumeric
  <1> QED BY <1>1, <1>2 DEF Safe

LEMMA MappedIs ==
    ASSUME NEW T, NEW text \in Seq(T)
    PROVE  /\ Mapped(SlugChar, text) \in Seq(Safe) /\ Len(Mapped(SlugChar, text)) = Len(text)
           /\ \A k \in 1 .. Len(text) : Mapped(SlugChar, text)[k] = SlugChar(text[k])
  <1>1. \A c : SlugChar(c) \in Safe
    BY DEF SlugChar, Alphanumeric, Safe, Range, Marks
  <1> QED BY <1>1 DEF Mapped

LEMMA SlugEnds ==
    ASSUME NEW T, NEW text \in Seq(T), NEW tail \in Seq(Safe), NEW size \in Nat,
           EndsIn(text, tail), Tidy(tail, Marks), tail # << >>,
           tail[1] \notin Marks, tail[Len(tail)] \notin Marks, Len(text) < size
    PROVE  EndsIn(Slug(text, size), tail)
  <1> DEFINE m == Mapped(SlugChar, text)
             n == Len(text)
             b == Len(tail)
  <1>1. m \in Seq(Safe) /\ Len(m) = n /\ \A k \in 1 .. n : m[k] = SlugChar(text[k])
    BY MappedIs
  <1>2. /\ n \in Nat /\ b \in Nat /\ b <= n /\ \A k \in 1 .. b : tail[k] \in Safe
        /\ \A k \in 1 .. b : text[n - b + k] = tail[k]
    BY DEF EndsIn
  <1> HIDE DEF m
  <1>3. EndsIn(m, tail)
    <2> HIDE DEF n, b
    <2>1. ASSUME NEW k \in 1 .. b PROVE m[n - b + k] = tail[k]
      <3>1. n - b + k \in 1 .. n
        BY <1>2
      <3>2. m[n - b + k] = SlugChar(tail[k])
        BY <1>1, <1>2, <3>1
      <3> QED BY <1>2, <3>2, SlugCharStays
    <2> QED BY <1>1, <1>2, <2>1 DEF EndsIn, b
  <1> DEFINE s == Squeeze(m, Marks, size)
  <1>4. s \in Seq(Safe) /\ EndsIn(s, tail)
    BY <1>1, <1>3, SqueezeIsTidy, SqueezeKeeps
  <1>5. Slug(text, size) = Trim(s, Marks)
    BY DEF Slug, SqueezeThenTrim, m
  <1> HIDE DEF s
  <1> QED BY <1>4, <1>5, TrimKeeps

(* A text of lower-case letters and digits is its own slug.                *)
LEMMA LettersStay ==
    ASSUME NEW text \in Seq(Range(Lower)), text # << >>, NEW size \in Nat, Len(text) < size, NEW other
    PROVE  BuildSlug(text, size, other) = text
  <1> DEFINE m == Mapped(SlugChar, text)
  <1>1. text \in Seq(Safe) /\ Len(text) \in Nat /\ Len(text) >= 1
    <2>1. text \in Seq(Safe)
      BY SeqOfMore DEF Safe
    <2> QED BY <2>1
  <1>2. \A k \in 1 .. Len(text) : text[k] \in Safe /\ text[k] \notin Marks
    <2>1. \A k \in 1 .. Len(text) : text[k] \in Range(Lower)
      OBVIOUS
    <2> QED BY <2>1, Letters DEF Safe
  <1>3. m = text
    <2>1. m \in Seq(Safe) /\ Len(m) = Len(text) /\ \A k \in 1 .. Len(text) : m[k] = text[k]
      BY <1>1, <1>2, MappedIs, SlugCharStays
    <2> HIDE DEF m
    <2> QED BY <1>1, <2>1
  <1>4. Tidy(text, Marks) /\ Neat(text, Marks) /\ Fits(text, size)
    <2>1. 1 \in 1 .. Len(text) /\ Len(text) \in 1 .. Len(text) /\ Len(text) + 1 <= size
      BY <1>1
    <2>2. \A k \in 1 .. Len(text) - 1 : k \in 1 .. Len(text)
      BY <1>1
    <2> QED BY <1>2, <2>1, <2>2 DEF Tidy, Neat, Fits
  <1>5. Squeeze(text, Marks, size) = text /\ Trim(text, Marks) = text
    BY <1>1, <1>4, SqueezeSame, TrimIs
  <1>6. Slug(text, size) = text
    BY <1>3, <1>5 DEF Slug, SqueezeThenTrim
  <1> QED BY <1>6 DEF BuildSlug, Slug

LEMMA ExtensionOf ==
    ASSUME NEW name \in Seq(Safe), NEW fmt \in Seq(Range(Lower)), Len(fmt) < ExtMax,
           EndsIn(name, <<".">> \o fmt), Len(name) > Len(fmt) + 1
    PROVE  Extension(name) = <<".">> \o fmt
  <1> DEFINE dot == <<".">> \o fmt
             n == Len(name)
             b == Len(fmt)
             d == n - b
             s == SubSeq(name, d, n)
  <1>1. fmt \in Seq(Safe) /\ "." \in Safe
    BY SeqOfMore DEF Safe, Marks
  <1>2. dot \in Seq(Safe) /\ Len(dot) = b + 1 /\ dot[1] = "." /\ \A k \in 1 .. b : dot[k + 1] = fmt[k]
    BY <1>1
  <1>3. \A k \in 1 .. Len(dot) : name[n - Len(dot) + k] = dot[k]
    BY DEF EndsIn
  <1>4. n \in Nat /\ b \in Nat /\ n > b + 1 /\ ExtMax \in Nat /\ b < ExtMax
    BY NameMaxAssumption
  <1>5. \A k \in 1 .. b : fmt[k] # "."
    <2>1. \A k \in 1 .. b : fmt[k] \in Range(Lower)
      OBVIOUS
    <2> QED BY <2>1, Letters DEF Marks
  <1> HIDE DEF dot, n, b
  <1>6. \A k \in 1 .. b + 1 : name[d + k - 1] = dot[k]
    <2>1. \A k \in 1 .. b + 1 : n - (b + 1) + k = d + k - 1
      BY <1>4
    <2> QED BY <1>2, <1>3, <2>1
  <1>7. d \in 1 .. n /\ d > 1 /\ n - d + 1 = b + 1 /\ d \in Nat /\ d + 1 - 1 = d
    BY <1>4
  <1>8. name[d] = "."
    <2>1. 1 \in 1 .. b + 1
      BY <1>4
    <2> QED BY <1>2, <1>6, <1>7, <2>1
  <1>9. ASSUME NEW k \in d + 1 .. n PROVE name[k] # "."
    <2> DEFINE j == k - d
    <2>1. j \in 1 .. b /\ j + 1 \in 1 .. b + 1 /\ d + (j + 1) - 1 = k
      BY <1>4
    <2> HIDE DEF j
    <2>2. name[k] = fmt[j]
      BY <1>2, <1>6, <2>1
    <2> QED BY <1>5, <2>1, <2>2
  <1> HIDE DEF d
  <1>10. DotOf(name) = d
    BY <1>7, <1>8, <1>9, DotAt DEF n
  <1>11. ~(d <= 1 \/ n - d + 1 > ExtMax)
    BY <1>4, <1>7
  <1>12. Extension(name) = s
    BY <1>10, <1>11 DEF Extension, n
  <1>13. s \in Seq(Safe) /\ Len(s) = b + 1 /\ \A k \in 1 .. b + 1 : s[k] = name[d + k - 1]
    BY <1>7 DEF n
  <1> HIDE DEF s
  <1>14. s = dot
    <2> DEFINE c == b + 1
    <2>1. \A k \in 1 .. c : s[k] = dot[k]
      BY <1>6, <1>13
    <2>2. Len(s) = c /\ Len(dot) = c /\ s \in Seq(Safe) /\ dot \in Seq(Safe)
      BY <1>2, <1>13
    <2> HIDE DEF c
    <2> QED BY <2>1, <2>2
  <1> QED BY <1>12, <1>14 DEF dot

LEMMA ShortKeeps ==
    ASSUME NEW name \in Seq(Safe), NEW fmt \in Seq(Range(Lower)), Len(fmt) < ExtMax,
           EndsIn(name, <<".">> \o fmt), Len(name) > Len(fmt) + 1
    PROVE  Extension(ApplyLengthPolicy(name)) = <<".">> \o fmt
  <1> DEFINE dot == <<".">> \o fmt
             digest == Digest(name)
             short == ApplyLengthPolicy(name)
  <1>1. Extension(name) = dot
    BY ExtensionOf
  <1>2. CASE Len(name) <= NameMax
    <2>1. short = name
      BY <1>2 DEF ApplyLengthPolicy
    <2> QED BY <1>1, <2>1
  <1>3. CASE ~(Len(name) <= NameMax)
    <2>1. Len(name) > NameMax
      BY <1>3, NameMaxAssumption
    <2>2. PICK head \in Seq(Safe) :
             head # << >> /\ short = head \o (<<"-">> \o digest) \o Extension(name)
      BY <2>1, ShortenedIs
    <2>3. digest \in Seq(Range(Lower))
      BY DigestIs
    <2>4. digest \in Seq(Safe) /\ fmt \in Seq(Safe) /\ "." \in Safe /\ "-" \in Safe
      BY <2>3, SeqOfMore DEF Safe, Marks
    <2> HIDE DEF digest
    <2> DEFINE front == head \o (<<"-">> \o digest)
    <2>5. front \in Seq(Safe) /\ Len(front) >= 1 /\ Len(front) \in Nat
      BY <2>2, <2>4
    <2>6. dot \in Seq(Safe) /\ Len(dot) = Len(fmt) + 1 /\ Len(fmt) \in Nat
      BY <2>4
    <2>7. short = front \o dot
      BY <1>1, <2>2
    <2> HIDE DEF front, short, dot
    <2>8. short \in Seq(Safe) /\ Len(short) = Len(front) + Len(dot)
      <3>1. \A u, w \in Seq(Safe) : u \o w \in Seq(Safe) /\ Len(u \o w) = Len(u) + Len(w)
        OBVIOUS
      <3> QED BY <2>5, <2>6, <2>7, <3>1
    <2>9. EndsIn(dot, dot)
      <3>1. \A k \in 1 .. Len(dot) : Len(dot) - Len(dot) + k = k
        BY <2>6
      <3> QED BY <2>6, <3>1 DEF EndsIn
    <2>10. EndsIn(short, dot)
      BY <2>5, <2>6, <2>7, <2>9, EndsAfter
    <2>11. Len(short) > Len(fmt) + 1
      BY <2>5, <2>6, <2>8
    <2>12. Extension(short) = dot
      BY <2>8, <2>10, <2>11, ExtensionOf DEF dot
    <2> QED BY <2>12 DEF short, dot
  <1> QED BY <1>2, <1>3

(* The one piece at a token.                                               *)
LEMMA TokenHere ==
    ASSUME NEW C, NEW p \in Seq(C), NEW i \in 1 .. Len(p), NEW n, NEW u \in DOMAIN Allowlist,
           TokenAt(p, i, u)
    PROVE  Piece(p, i, n) = {<<i + Len(u) + 2, ResolveTokenValue(u, n)>>}
  <1>1. p[i] = "[" /\ p[i + 1] = u[1] /\ u[1] \notin Bracket
    <2>1. Len(u) \in Nat /\ Len(u) >= 1 /\ \A k \in 1 .. Len(u) : u[k] \notin Bracket
      BY TokensAre
    <2>2. 1 \in 1 .. Len(u)
      BY <2>1
    <2> QED BY <2>1, <2>2 DEF TokenAt
  <1>2. p[i] \in Bracket /\ ~Doubled(p, i)
    BY <1>1 DEF Bracket, Doubled
  <1>3. ASSUME NEW w \in TokensAt(p, i) PROVE w = u
    <2>1. w \in DOMAIN Allowlist
      BY DEF TokensAt
    <2>2. TokenAt(p, i, w)
      BY <2>1, TokensAtAre
    <2> QED BY <2>1, <2>2, TokenIsNamed
  <1>4. u \in TokensAt(p, i)
    BY TokensAtAre
  <1>5. TokensAt(p, i) = {u}
    BY <1>3, <1>4
  <1> QED BY <1>2, <1>5, PieceIs

(* A piece does not reach over a bracket that no bracket stands before.    *)
LEMMA PieceStops ==
    ASSUME NEW C, NEW p \in Seq(C), NEW k \in 1 .. Len(p), p[k] = "[", k > 1 => p[k - 1] # "[",
           NEW i \in 1 .. k - 1, NEW n, NEW e \in Piece(p, i, n)
    PROVE  e[1] \in i + 1 .. k
  <1>1. Len(p) \in Nat /\ k \in Nat /\ i \in Nat /\ i >= 1 /\ i < k /\ k <= Len(p) /\ i \in 1 .. Len(p)
    OBVIOUS
  <1>2. \/ p[i] \notin Bracket /\ e[1] = i + 1
        \/ Doubled(p, i) /\ e[1] = i + 2
        \/ \E u \in TokensAt(p, i) : e[1] = i + Len(u) + 2
    BY PieceIs
  <1>3. CASE e[1] = i + 1
    BY <1>1, <1>3
  <1>4. CASE Doubled(p, i) /\ e[1] = i + 2
    <2>1. i + 1 # k
      <3>1. SUFFICES ASSUME i + 1 = k PROVE FALSE
        OBVIOUS
      <3>2. p[i] = p[k] /\ k > 1 /\ k - 1 = i
        BY <1>1, <1>4, <3>1 DEF Doubled
      <3> QED BY <3>2
    <2> QED BY <1>1, <1>4, <2>1
  <1>5. ASSUME NEW u \in TokensAt(p, i), e[1] = i + Len(u) + 2 PROVE e[1] \in i + 1 .. k
    <2>1. u \in DOMAIN Allowlist
      BY DEF TokensAt
    <2>2. TokenAt(p, i, u)
      BY <2>1, TokensAtAre
    <2> DEFINE m == Len(u)
    <2>3. m \in Nat /\ \A j \in 1 .. m : u[j] \notin Bracket
      BY <2>1, TokensAre
    <2>4. p[i + m + 1] = "]" /\ \A j \in 1 .. m : p[i + j] = u[j]
      BY <2>2 DEF TokenAt
    <2>5. e[1] = i + m + 2
      BY <1>5
    <2> HIDE DEF m
    <2>6. ~(k <= i + m + 1)
      <3>1. SUFFICES ASSUME k <= i + m + 1 PROVE FALSE
        OBVIOUS
      <3>2. k # i + m + 1
        BY <2>4
      <3> DEFINE j == k - i
      <3>3. j \in 1 .. m /\ i + j = k
        BY <1>1, <2>3, <3>1, <3>2
      <3> HIDE DEF j
      <3>4. p[k] \notin Bracket
        BY <2>3, <2>4, <3>3
      <3> QED BY <3>4 DEF Bracket
    <2> QED BY <1>1, <2>3, <2>5, <2>6
  <1> QED BY <1>2, <1>3, <1>4, <1>5

(* Where the built-in pattern's tokens stand.                              *)
LEMMA DefaultIs ==
    \E k \in 1 .. Len(DefaultPattern), t \in DOMAIN Allowlist, u \in DOMAIN Allowlist :
      /\ Allowlist[t] = "index" /\ Allowlist[u] = "format"
      /\ k > 1 => DefaultPattern[k - 1] # "["
      /\ TokenAt(DefaultPattern, k, t) /\ DefaultPattern[k + Len(t) + 2] = "."
      /\ TokenAt(DefaultPattern, k + Len(t) + 3, u)
      /\ Len(DefaultPattern) = k + Len(t) + Len(u) + 4
  <1> DEFINE p == DefaultPattern
  <1>1. PICK k \in 1 .. Len(p), t \in DOMAIN Allowlist, u \in DOMAIN Allowlist :
          /\ Allowlist[t] = "index" /\ Allowlist[u] = "format"
          /\ k > 1 => p[k - 1] # "["
          /\ SubSeq(p, k, Len(p)) = <<"[">> \o t \o <<"]", ".", "[">> \o u \o <<"]">>
    BY DefaultAssumption
  <1> DEFINE n == Len(t)
             m == Len(u)
             L == Len(p)
             s == SubSeq(p, k, L)
             w == <<"[">> \o t \o <<"]", ".", "[">> \o u \o <<"]">>
  <1>2. p \in Seq(Char) /\ t \in Seq(Char) /\ u \in Seq(Char)
    BY Constants, TokensAre
  <1>3. n \in Nat /\ m \in Nat /\ L \in Nat /\ k \in Nat /\ k >= 1 /\ k <= L
    BY <1>2
  <1>4. /\ Len(w) = n + m + 5 /\ w[1] = "[" /\ w[n + 2] = "]" /\ w[n + 3] = "." /\ w[n + 4] = "["
        /\ w[n + m + 5] = "]"
        /\ \A j \in 1 .. n : w[j + 1] = t[j]
        /\ \A j \in 1 .. m : w[n + 4 + j] = u[j]
    BY <1>2
  <1>5. s = w
    BY <1>1
  <1> HIDE DEF w
  <1>6. Len(s) = L - k + 1 /\ \A j \in 1 .. L - k + 1 : s[j] = p[k + j - 1]
    <2> HIDE DEF L, p
    <2> QED BY <1>2, <1>3
  <1> HIDE DEF s, n, m, L, p
  <1>7. L = k + n + m + 4
    BY <1>3, <1>4, <1>5, <1>6
  <1>8. \A j \in 1 .. n + m + 5 : w[j] = p[k + j - 1]
    <2>1. L - k + 1 = n + m + 5
      BY ONLY <1>3, <1>7
    <2> QED BY ONLY <1>5, <1>6, <2>1
  <1>9. /\ p[k] = "[" /\ p[k + n + 1] = "]" /\ p[k + n + 2] = "." /\ p[k + n + 3] = "["
         /\ p[(k + n + 3) + m + 1] = "]"
    <2>1. /\ 1 \in 1 .. n + m + 5 /\ n + 2 \in 1 .. n + m + 5 /\ n + 3 \in 1 .. n + m + 5
          /\ n + 4 \in 1 .. n + m + 5 /\ n + m + 5 \in 1 .. n + m + 5
          /\ k + 1 - 1 = k /\ k + (n + 2) - 1 = k + n + 1 /\ k + (n + 3) - 1 = k + n + 2
          /\ k + (n + 4) - 1 = k + n + 3 /\ k + (n + m + 5) - 1 = (k + n + 3) + m + 1
      BY <1>3
    <2> QED BY <1>4, <1>8, <2>1
  <1>10. ASSUME NEW j \in 1 .. n PROVE p[k + j] = t[j]
    <2>1. j + 1 \in 1 .. n + m + 5 /\ k + (j + 1) - 1 = k + j
      BY <1>3
    <2> QED BY <1>4, <1>8, <2>1
  <1>11. ASSUME NEW j \in 1 .. m PROVE p[(k + n + 3) + j] = u[j]
    <2>1. n + 4 + j \in 1 .. n + m + 5 /\ k + (n + 4 + j) - 1 = (k + n + 3) + j
      BY <1>3
    <2> QED BY <1>4, <1>8, <2>1
  <1>12. k + n < L /\ (k + n + 3) + m < L
    BY <1>3, <1>7
  <1>13. TokenAt(p, k, t) /\ TokenAt(p, k + n + 3, u)
    BY <1>9, <1>10, <1>11, <1>12 DEF TokenAt, n, m, L
  <1> QED BY <1>1, <1>7, <1>9, <1>13 DEF p, n, m, L

(* What the built-in pattern gives the end of file n's name.               *)
FormatOf(n) == Format(Batch[n].path)
EndOf(n) == Numeral[n] \o (<<".">> \o FormatOf(n))

LEMMA ConcatIs ==
    ASSUME NEW T, NEW s \in Seq(T), NEW t \in Seq(T)
    PROVE  /\ s \o t \in Seq(T) /\ Len(s \o t) = Len(s) + Len(t)
           /\ \A k \in 1 .. Len(s) : (s \o t)[k] = s[k]
           /\ \A k \in 1 .. Len(t) : (s \o t)[Len(s) + k] = t[k]
  OBVIOUS

LEMMA EndIs ==
    ASSUME NEW n \in DOMAIN Batch
    PROVE  /\ Numeral[n] \in Seq(Range(Lower)) /\ Numeral[n] # << >>
           /\ FormatOf(n) \in Seq(Range(Lower)) /\ FormatOf(n) # << >>
           /\ Len(FormatOf(n)) < ExtMax /\ Len(FormatOf(n)) < ValueSize
           /\ EndOf(n) \in Seq(Safe) /\ EndOf(n) # << >> /\ Tidy(EndOf(n), Marks)
           /\ EndOf(n)[1] \notin Marks /\ EndOf(n)[Len(EndOf(n))] \notin Marks
           /\ EndsIn(EndOf(n), <<".">> \o FormatOf(n)) /\ Len(EndOf(n)) > Len(FormatOf(n)) + 1
  <1> DEFINE num == Numeral[n]
             fmt == FormatOf(n)
             dot == <<".">> \o fmt
             end == EndOf(n)
             a == Len(num)
             b == Len(fmt)
  <1>1. num \in Seq(Range(Lower)) /\ num # << >>
    BY BatchAssumption
  <1>2. fmt \in Seq(Range(Lower)) /\ fmt # << >> /\ b < ExtMax /\ b < ValueSize
    BY FormatAssumption DEF FormatOf
  <1>3. end = num \o dot
    BY DEF EndOf
  <1> HIDE DEF num, fmt, end
  <1>4. a \in Nat /\ a >= 1 /\ b \in Nat /\ b >= 1
    BY <1>1, <1>2
  <1>5. num \in Seq(Safe) /\ fmt \in Seq(Safe) /\ "." \in Safe
    BY <1>1, <1>2, SeqOfMore DEF Safe, Marks
  <1>6. dot \in Seq(Safe) /\ Len(dot) = b + 1 /\ dot[1] = "." /\ \A k \in 1 .. b : dot[k + 1] = fmt[k]
    BY <1>5
  <1>7. (\A k \in 1 .. a : num[k] \notin Marks) /\ (\A k \in 1 .. b : fmt[k] \notin Marks)
    <2>1. (\A k \in 1 .. a : num[k] \in Range(Lower)) /\ (\A k \in 1 .. b : fmt[k] \in Range(Lower))
      BY <1>1, <1>2
    <2> QED BY <2>1, Letters
  <1> HIDE DEF dot
  <1>8. /\ end \in Seq(Safe) /\ Len(end) = a + Len(dot)
        /\ \A k \in 1 .. a : end[k] = num[k]
        /\ \A k \in 1 .. Len(dot) : end[a + k] = dot[k]
    <2>1. dot \in Seq(Safe) /\ num \in Seq(Safe)
      BY <1>5, <1>6
    <2>2. /\ num \o dot \in Seq(Safe) /\ Len(num \o dot) = Len(num) + Len(dot)
          /\ \A k \in 1 .. Len(num) : (num \o dot)[k] = num[k]
          /\ \A k \in 1 .. Len(dot) : (num \o dot)[Len(num) + k] = dot[k]
      BY <2>1, ConcatIs
    <2> QED BY <1>3, <2>2
  <1> HIDE DEF a, b
  <1>9. ASSUME NEW k \in 1 .. a + b + 1, k # a + 1 PROVE end[k] \notin Marks
    <2>1. CASE k <= a
      <3>1. k \in 1 .. a
        BY <1>4, <2>1
      <3> QED BY <1>7, <1>8, <3>1
    <2>2. CASE ~(k <= a)
      <3> DEFINE j == k - a - 1
      <3>1. j \in 1 .. b /\ j + 1 \in 1 .. b + 1 /\ a + (j + 1) = k
        BY <1>4, <1>9, <2>2
      <3> HIDE DEF j
      <3>2. end[k] = fmt[j]
        BY <1>6, <1>8, <3>1
      <3> QED BY <1>7, <3>1, <3>2
    <2> QED BY <2>1, <2>2
  <1>10. Len(end) = a + b + 1 /\ a + b + 1 \in Nat
    BY <1>4, <1>6, <1>8
  <1>11. Tidy(end, Marks)
    <2>1. ASSUME NEW k \in 1 .. (a + b + 1) - 1 PROVE ~(end[k] \in Marks /\ end[k + 1] \in Marks)
      <3>1. k \in 1 .. a + b + 1 /\ k + 1 \in 1 .. a + b + 1 /\ (k # a + 1 \/ k + 1 # a + 1)
        BY <1>4
      <3> QED BY <1>9, <3>1
    <2> QED BY <1>10, <2>1 DEF Tidy
  <1>12. end[1] \notin Marks /\ end[Len(end)] \notin Marks
    <2>1. 1 \in 1 .. a + b + 1 /\ 1 # a + 1 /\ a + b + 1 \in 1 .. a + b + 1 /\ a + b + 1 # a + 1
      BY <1>4
    <2> QED BY <1>9, <1>10, <2>1
  <1>13. EndsIn(end, dot)
    <2>1. Len(dot) <= Len(end)
      BY <1>4, <1>6, <1>8
    <2>2. ASSUME NEW k \in 1 .. Len(dot) PROVE end[Len(end) - Len(dot) + k] = dot[k]
      <3>1. Len(end) - Len(dot) + k = a + k
        BY <1>4, <1>6, <1>8
      <3> QED BY <1>8, <3>1
    <2> QED BY <2>1, <2>2 DEF EndsIn
  <1>14. end # << >> /\ Len(end) > b + 1
    <2>1. Len(end) >= 1 /\ Len(end) > b + 1
      BY <1>4, <1>10
    <2> QED BY <2>1
  <1> QED BY <1>1, <1>2, <1>8, <1>11, <1>12, <1>13, <1>14 DEF num, fmt, dot, end, b

LEMMA AfterBefore ==
    ASSUME NEW f, NEW i, NEW text
    PROVE  After(f, {<<i, text>>}) = Before(text, f[i])
  <1> DEFINE e == <<i, text>>
  <1>1. e[1] = i /\ e[2] = text
    OBVIOUS
  <1> HIDE DEF e
  <1>2. ASSUME NEW x PROVE x \in After(f, {e}) <=> x \in {e[2] \o rest : rest \in f[e[1]]}
    BY DEF After
  <1>3. After(f, {e}) = Before(e[2], f[e[1]])
    BY <1>2 DEF Before
  <1> QED BY <1>1, <1>3 DEF e

LEMMA DefaultEnds ==
    ASSUME NEW n \in DOMAIN Batch
    PROVE  \A x \in From(DefaultPattern, n)[1] : EndsIn(x, EndOf(n))
  <1> DEFINE p == DefaultPattern
             c == From(p, n)
             end == EndOf(n)
             fmt == FormatOf(n)
             num == Numeral[n]
  <1>1. PICK k \in 1 .. Len(p), t \in DOMAIN Allowlist, u \in DOMAIN Allowlist :
          /\ Allowlist[t] = "index" /\ Allowlist[u] = "format"
          /\ k > 1 => p[k - 1] # "["
          /\ TokenAt(p, k, t) /\ p[k + Len(t) + 2] = "."
          /\ TokenAt(p, k + Len(t) + 3, u)
          /\ Len(p) = k + Len(t) + Len(u) + 4
    BY DefaultIs
  <1> DEFINE a == Len(t)
             b == Len(u)
             L == Len(p)
  <1>2. p \in Seq(Char) /\ L \in Nat /\ a \in Nat /\ b \in Nat /\ k \in Nat /\ k >= 1 /\ k <= L
    BY Constants, TokensAre
  <1>3. /\ num \in Seq(Char) /\ fmt \in Seq(Char) /\ end \in Seq(Char)
        /\ fmt \in Seq(Range(Lower)) /\ fmt # << >> /\ Len(fmt) < ValueSize
    <2>1. num \in Seq(Range(Lower)) /\ fmt \in Seq(Range(Lower)) /\ end \in Seq(Safe)
          /\ fmt # << >> /\ Len(fmt) < ValueSize
      BY EndIs
    <2> HIDE DEF num, fmt, end
    <2>2. num \in Seq(Safe) /\ fmt \in Seq(Safe)
      BY <2>1, SeqOfMore DEF Safe
    <2> QED BY <2>1, <2>2, SafeIsText
  <1>4. ResolveTokenValue(t, n) = num
    BY <1>1 DEF ResolveTokenValue
  <1>5. ResolveTokenValue(u, n) = fmt
    <2>1. ResolveTokenValue(u, n) = BuildSlug(Field(Batch[n], "format"), ValueSize, Fallback["format"])
      BY <1>1 DEF ResolveTokenValue
    <2>2. Field(Batch[n], "format") = fmt
      BY DEF Field, FormatOf
    <2>3. ValueSize \in Nat
      BY PatternAssumption
    <2> HIDE DEF fmt
    <2> QED BY <1>3, <2>1, <2>2, <2>3, LettersStay
  <1>6. c[L + 1] = {<< >>} /\ \A i \in 1 .. L : c[i] = After(c, Piece(p, i, n))
    BY <1>2, FromRuns
  <1>7. /\ L = k + a + b + 4 /\ p[k] = "[" /\ p[k + a + 2] = "."
        /\ TokenAt(p, k, t) /\ TokenAt(p, k + a + 3, u)
    BY <1>1 DEF TokenAt
  <1>8. end = num \o (<<".">> \o fmt)
    BY DEF EndOf
  <1>9. Piece(p, k, n) = {<<k + a + 2, num>>}
    <2>1. k \in 1 .. Len(p)
      OBVIOUS
    <2> QED BY <1>2, <1>4, <1>7, <2>1, TokenHere
  <1>10. Piece(p, k + a + 2, n) = {<<k + a + 3, <<".">>>>}
    <2> DEFINE i == k + a + 2
    <2>1. i \in 1 .. Len(p) /\ i + 1 = k + a + 3
      BY <1>2, <1>7
    <2>2. p[i] = "." /\ p[i] \notin Bracket
      BY <1>7 DEF Bracket
    <2> HIDE DEF i
    <2>3. Piece(p, i, n) = {<<i + 1, <<".">>>>}
      BY <1>2, <2>1, <2>2, LiteralPiece
    <2> QED BY <2>1, <2>3 DEF i
  <1>11. Piece(p, k + a + 3, n) = {<<L + 1, fmt>>}
    <2> DEFINE i == k + a + 3
    <2>1. i \in 1 .. Len(p) /\ i + b + 2 = L + 1
      BY <1>2, <1>7
    <2>2. TokenAt(p, i, u)
      BY <1>7
    <2> HIDE DEF i
    <2>3. Piece(p, i, n) = {<<i + b + 2, fmt>>}
      BY <1>2, <1>5, <2>1, <2>2, TokenHere
    <2> QED BY <2>1, <2>3 DEF i
  <1> HIDE DEF c, end, fmt, num, a, b, L, p
  <1>12. k \in 1 .. L /\ k + a + 2 \in 1 .. L /\ k + a + 3 \in 1 .. L
    BY <1>2, <1>7
  <1>13. c[k + a + 3] = {fmt}
    <2>1. c[k + a + 3] = Before(fmt, c[L + 1])
      <3>1. c[k + a + 3] = After(c, {<<L + 1, fmt>>})
        BY <1>6, <1>11, <1>12
      <3>2. After(c, {<<L + 1, fmt>>}) = Before(fmt, c[L + 1])
        BY AfterBefore
      <3> QED BY <3>1, <3>2
    <2>2. fmt \o << >> = fmt
      BY <1>3
    <2> QED BY <1>6, <2>1, <2>2 DEF Before
  <1>14. c[k + a + 2] = {<<".">> \o fmt}
    <2>1. c[k + a + 2] = Before(<<".">>, c[k + a + 3])
      <3>1. c[k + a + 2] = After(c, {<<k + a + 3, <<".">>>>})
        BY <1>6, <1>10, <1>12
      <3>2. After(c, {<<k + a + 3, <<".">>>>}) = Before(<<".">>, c[k + a + 3])
        BY AfterBefore
      <3> QED BY <3>1, <3>2
    <2> QED BY <1>13, <2>1 DEF Before
  <1>15. c[k] = {end}
    <2>1. c[k] = Before(num, c[k + a + 2])
      <3>1. c[k] = After(c, {<<k + a + 2, num>>})
        BY <1>6, <1>9, <1>12
      <3>2. After(c, {<<k + a + 2, num>>}) = Before(num, c[k + a + 2])
        BY AfterBefore
      <3> QED BY <3>1, <3>2
    <2> QED BY <1>8, <1>14, <2>1 DEF Before
  <1> DEFINE G == {i \in 1 .. k : \A x \in c[i] : EndsIn(x, end)}
             h == k - 1
  <1>16. h \in Nat /\ h + 1 = k
    BY <1>2
  <1>17. k \in G
    <2>1. EndsIn(end, end)
      <3>1. Len(end) \in Nat
        BY <1>3
      <3>2. \A j \in 1 .. Len(end) : Len(end) - Len(end) + j = j
        BY <3>1
      <3> QED BY <3>1, <3>2 DEF EndsIn
    <2>2. k \in 1 .. k
      BY <1>2
    <2> QED BY <1>15, <2>1, <2>2
  <1>18. ASSUME NEW i \in 1 .. h, \A j \in i + 1 .. h + 1 : j \in G PROVE i \in G
    <2>1. i \in 1 .. k - 1 /\ i \in 1 .. k /\ i \in 1 .. L
      BY <1>2, <1>16
    <2>2. ASSUME NEW x \in c[i] PROVE EndsIn(x, end)
      <3>1. x \in After(c, Piece(p, i, n))
        BY <1>6, <2>1, <2>2
      <3>2. PICK e \in Piece(p, i, n) : x \in {e[2] \o rest : rest \in c[e[1]]}
        BY <3>1 DEF After
      <3>3. PICK rest \in c[e[1]] : x = e[2] \o rest
        BY <3>2
      <3>4. e[1] \in i + 1 .. k
        BY <1>1, <1>2, <1>7, <2>1, PieceStops DEF p, L
      <3>5. EndsIn(rest, end)
        <4>1. e[1] \in G
          BY <1>16, <1>18, <3>4
        <4> QED BY <3>3, <4>1
      <3>6. e[2] \in Seq(Char)
        BY <1>2, <2>1, PieceTexts DEF L
      <3>7. rest \in Seq(Char)
        <4>1. e[1] \in 1 .. L + 1
          BY <1>2, <2>1, <3>4
        <4>2. c[e[1]] \subseteq Seq(Char)
          BY <1>2, <4>1, FromTyped DEF L, c
        <4> QED BY <3>3, <4>2
      <3> QED BY <1>3, <3>3, <3>5, <3>6, <3>7, EndsAfter
    <2> QED BY <2>1, <2>2
  <1> HIDE DEF h, G
  <1>19. \A i \in 1 .. h + 1 : i \in G
    BY <1>16, <1>17, <1>18, Backwards
  <1>20. 1 \in G
    BY <1>2, <1>16, <1>19
  <1> QED BY <1>20 DEF G, c, end, p

LEMMA FinishedKeeps ==
    ASSUME NEW n \in DOMAIN Batch, NEW text \in Seq(Char), Len(text) < RenderSize, EndsIn(text, EndOf(n))
    PROVE  Extension(Finished(text)) = <<".">> \o FormatOf(n)
  <1> DEFINE end == EndOf(n)
             fmt == FormatOf(n)
             slug == Slug(text, RenderSize)
  <1>1. /\ fmt \in Seq(Range(Lower)) /\ Len(fmt) < ExtMax
        /\ end \in Seq(Safe) /\ end # << >> /\ Tidy(end, Marks)
        /\ end[1] \notin Marks /\ end[Len(end)] \notin Marks
        /\ EndsIn(end, <<".">> \o fmt) /\ Len(end) > Len(fmt) + 1
    BY EndIs
  <1>2. RenderSize \in Nat /\ EndsIn(text, end)
    BY PatternAssumption
  <1> HIDE DEF end, fmt
  <1>3. slug \in Seq(Safe) /\ EndsIn(slug, end)
    BY <1>1, <1>2, SlugIs, SlugEnds
  <1>4. Len(end) \in Nat /\ Len(end) >= 1 /\ Len(fmt) \in Nat /\ <<".">> \o fmt \in Seq(Safe)
    <2>1. fmt \in Seq(Safe) /\ "." \in Safe
      BY <1>1, SeqOfMore DEF Safe, Marks
    <2>2. <<".">> \o fmt \in Seq(Safe)
      BY <2>1
    <2> QED BY <1>1, <2>1, <2>2
  <1>5. text # << >>
    BY <1>2, <1>4 DEF EndsIn
  <1> HIDE DEF slug
  <1>6. slug # << >> /\ Len(slug) > Len(fmt) + 1
    <2>1. Len(end) <= Len(slug) /\ Len(slug) \in Nat
      BY <1>3 DEF EndsIn
    <2> QED BY <1>1, <1>4, <2>1
  <1>7. EndsIn(slug, <<".">> \o fmt)
    BY <1>1, <1>3, <1>4, EndsWithin
  <1>8. Extension(ApplyLengthPolicy(slug)) = <<".">> \o fmt
    BY <1>1, <1>3, <1>6, <1>7, ShortKeeps
  <1>9. Finished(text) = ApplyLengthPolicy(slug)
    BY <1>5, <1>6 DEF Finished, BuildSlug, slug, Slug
  <1> QED BY <1>8, <1>9 DEF fmt

(* With the built-in pattern each name has its file's format for extension, *)
(* whatever the date holds and also when the name was shortened.           *)
THEOREM ExtensionsAreKept == PatternSpec => []ExtensionIsKept
  <1>1. PatternInv => ExtensionIsKept
    <2> SUFFICES ASSUME PatternInv, pattern = DefaultPattern, NEW i \in DOMAIN names
                 PROVE  Extension(names[i]) = <<".">> \o Format(Batch[i].path)
      BY DEF ExtensionIsKept
    <2>1. /\ i \in 1 .. Len(drafts) /\ names[i] = Finished(drafts[i])
          /\ drafts \in Seq(Seq(Char)) /\ Len(drafts) <= Len(Batch)
          /\ Len(drafts[i]) < RenderSize
      BY DEF PatternInv, ScanTypeOK
    <2>2. drafts[i] \in Seq(Char)
      BY <2>1
    <2>3. i \in DOMAIN Batch
      BY <2>1, Constants
    <2>4. From(pattern, i)[1] = {drafts[i]}
      BY <2>1 DEF PatternInv, MadeOK
    <2>5. EndsIn(drafts[i], EndOf(i))
      BY <2>3, <2>4, DefaultEnds
    <2> QED BY <2>1, <2>2, <2>3, <2>5, FinishedKeeps DEF FormatOf
  <1> QED BY <1>1, ScansKeepMeaning, PTL
=============================================================================
