------------------------ MODULE TapePartsProofs ------------------------
(***************************************************************************)
(* Proofs about the two parts of the classic tape path that transform or   *)
(* carry its bytes: the TAP to TZX converter and the dual-clock FIFO.      *)
(*                                                                         *)
(* The converter, for every file: the reference definitions Expansion and  *)
(* WellFormed are recursive, so it is first proved, from the fact that a   *)
(* nonempty set of numbers has a least element, that the recursion ends    *)
(* and that they obey their equations.  The invariant then says that what  *)
(* was sent and what is still owed for the bytes to come make up the       *)
(* expansion of the whole file, whatever these bytes are.                  *)
(*                                                                         *)
(* The FIFO, for every depth and every set of bytes.                       *)
(***************************************************************************)
EXTENDS TapToTzx, AsyncByteFifo, SequenceTheorems, WellFoundedInduction, TLAPS

\* A nonempty set of natural numbers has a least element.
LEMMA LeastNumber ==
  ASSUME NEW T, T \subseteq Nat, T # {}
  PROVE  \E n \in T : \A m \in T : ~(m < n)
<1> DEFINE R == {ss \in Nat \X Nat : ss[1] < ss[2]}
<1>1. IsWellFoundedOn(R, Nat)
  BY NatLessThanWellFounded DEF OpToRel
<1>2. \A n, m \in Nat : <<m, n>> \in R <=> m < n
  OBVIOUS
<1>3. \E n \in T : \A m \in T : <<m, n>> \notin R
  <2> HIDE DEF R
  <2> QED BY <1>1, WFMin
<1> QED BY <1>2, <1>3

(***************************************************************************)
(* A function may be defined by one recursive call on something smaller:   *)
(* what f is at s is given where s is in stop, and else follows from what  *)
(* it is at next[s].                                                       *)
(***************************************************************************)
Below(S, size, n) == {s \in S : size[s] < n}
Obeys(f, s, stop, base, next, step) ==
  f[s] = IF s \in stop THEN base[s] ELSE step[<<s, f[next[s]]>>]
Follows(f, S, V, size, n, stop, base, next, step) ==
  /\ f \in [Below(S, size, n) -> V]
  /\ \A s \in Below(S, size, n) : Obeys(f, s, stop, base, next, step)

\* A function that follows the equation below n is one step from following it below n + 1.
LEMMA Longer ==
  ASSUME NEW S, NEW V, NEW size \in [S -> Nat], NEW stop, stop \subseteq S,
         NEW base \in [stop -> V], NEW next \in [S \ stop -> S], NEW step \in [S \X V -> V],
         \A s \in S \ stop : size[next[s]] < size[s],
         NEW n \in Nat, NEW f, Follows(f, S, V, size, n, stop, base, next, step)
  PROVE  \E g : Follows(g, S, V, size, n + 1, stop, base, next, step)
<1> DEFINE g == [s \in Below(S, size, n + 1) |-> IF s \in stop THEN base[s] ELSE step[<<s, f[next[s]]>>]]
<1>1. \A s \in Below(S, size, n + 1) \ stop : s \in S /\ next[s] \in Below(S, size, n)
  <2> TAKE s \in Below(S, size, n + 1) \ stop
  <2>1. s \in S \ stop /\ size[s] \in Nat /\ size[s] < n + 1
    BY DEF Below
  <2>2. next[s] \in S /\ size[next[s]] \in Nat /\ size[next[s]] < size[s]
    BY <2>1
  <2>3. size[next[s]] < n
    BY <2>1, <2>2
  <2> QED BY <2>1, <2>2, <2>3 DEF Below
<1>2. \A s \in Below(S, size, n + 1) : s \in S /\ g[s] = IF s \in stop THEN base[s] ELSE step[<<s, f[next[s]]>>]
  BY DEF Below
<1>3. \A s \in Below(S, size, n) : s \in Below(S, size, n + 1)
  <2> TAKE s \in Below(S, size, n)
  <2>1. size[s] \in Nat /\ s \in S /\ size[s] < n
    BY DEF Below
  <2> QED BY <2>1 DEF Below
<1>4. \A s \in Below(S, size, n) : g[s] = f[s] /\ f[s] \in V
  BY <1>2, <1>3 DEF Follows, Obeys
<1>5. g \in [Below(S, size, n + 1) -> V]
  <2> SUFFICES ASSUME NEW s \in Below(S, size, n + 1)
               PROVE  (IF s \in stop THEN base[s] ELSE step[<<s, f[next[s]]>>]) \in V
    OBVIOUS
  <2>1. CASE s \in stop
    BY <2>1
  <2>2. CASE s \notin stop
    <3>1. s \in S /\ f[next[s]] \in V
      BY <1>1, <1>4, <2>2
    <3> QED BY <2>2, <3>1
  <2> QED BY <2>1, <2>2
<1>6. ASSUME NEW s \in Below(S, size, n + 1) PROVE Obeys(g, s, stop, base, next, step)
  <2> HIDE DEF g
  <2> QED BY <1>1, <1>2, <1>4 DEF Obeys
<1> HIDE DEF g
<1> QED BY <1>5, <1>6 DEF Follows

\* Such a function exists.
LEMMA Recursion ==
  ASSUME NEW S, NEW V, NEW size \in [S -> Nat], NEW stop, stop \subseteq S,
         NEW base \in [stop -> V], NEW next \in [S \ stop -> S], NEW step \in [S \X V -> V],
         \A s \in S \ stop : size[next[s]] < size[s]
  PROVE  \E f \in [S -> V] : \A s \in S : Obeys(f, s, stop, base, next, step)
<1> DEFINE F(f, n) == Follows(f, S, V, size, n, stop, base, next, step)
           Without == {n \in Nat : \A f : ~F(f, n)}
<1>1. ASSUME NEW n \in Nat, NEW f, F(f, n) PROVE n + 1 \notin Without
  BY <1>1, Longer
<1>0. ASSUME NEW m \in Nat, NEW f, F(f, m), NEW n \in Nat, NEW g, F(g, n),
              NEW t \in S, size[t] < m, size[t] < n
      PROVE  f[t] = g[t]
  <2> DEFINE Differ == {k \in Nat : \E s \in S : size[s] = k /\ k < m /\ k < n /\ f[s] # g[s]}
  <2>1. SUFFICES ASSUME Differ # {} PROVE FALSE
    <3>1. size[t] \in Nat
      OBVIOUS
    <3> QED BY <1>0, <2>1, <3>1
  <2>2. PICK k \in Differ : \A j \in Differ : ~(j < k)
    <3>1. Differ \subseteq Nat
      OBVIOUS
    <3> HIDE DEF Differ
    <3> QED BY <2>1, <3>1, LeastNumber
  <2>3. PICK s \in S : size[s] = k /\ k < m /\ k < n /\ f[s] # g[s]
    BY <2>2
  <2>4. k \in Nat /\ s \in Below(S, size, m) /\ s \in Below(S, size, n)
    BY <2>3 DEF Below
  <2>5. Obeys(f, s, stop, base, next, step) /\ Obeys(g, s, stop, base, next, step)
    BY <1>0, <2>4 DEF Follows
  <2>6. s \notin stop /\ f[next[s]] # g[next[s]]
    BY <2>3, <2>5 DEF Obeys
  <2>7. next[s] \in S /\ size[next[s]] \in Nat /\ size[next[s]] < k
    BY <2>3, <2>6
  <2>8. size[next[s]] \in Differ
    BY <2>3, <2>4, <2>6, <2>7
  <2> QED BY <2>2, <2>7, <2>8
<1>2. 0 \notin Without
  <2> DEFINE f == [s \in {} |-> s]
  <2>1. Below(S, size, 0) = {}
    BY DEF Below
  <2>2. F(f, 0)
    BY <2>1 DEF Follows
  <2> QED BY <2>2
<1>3. Without = {}
  <2> SUFFICES ASSUME Without # {} PROVE FALSE
    OBVIOUS
  <2>1. PICK n \in Without : \A m \in Without : ~(m < n)
    <3>1. Without \subseteq Nat
      OBVIOUS
    <3> HIDE DEF Without
    <3> QED BY <3>1, LeastNumber
  <2>2. n \in Nat /\ n # 0
    BY <1>2
  <2>3. n - 1 \in Nat /\ n - 1 < n /\ n - 1 + 1 = n
    BY <2>2
  <2>4. n - 1 \notin Without
    <3> HIDE DEF Without
    <3> QED BY <2>1, <2>3
  <2>5. PICK f : F(f, n - 1)
    BY <2>3, <2>4
  <2>6. n - 1 + 1 \notin Without
    <3> HIDE DEF F, Without
    <3> QED BY <1>1, <2>3, <2>5
  <2> QED BY <2>1, <2>3, <2>6
<1> DEFINE Up(s) == CHOOSE f : F(f, size[s] + 1)
           G == [s \in S |-> Up(s)[s]]
<1>4. ASSUME NEW s \in S PROVE F(Up(s), size[s] + 1) /\ s \in Below(S, size, size[s] + 1)
  <2>1. size[s] + 1 \in Nat /\ size[s] < size[s] + 1
    OBVIOUS
  <2>2. \E f : F(f, size[s] + 1)
    BY <1>3, <2>1
  <2> HIDE DEF F
  <2> QED BY <2>1, <2>2 DEF Below
<1>5. ASSUME NEW s \in S PROVE G[s] = Up(s)[s] /\ G[s] \in V
  BY <1>4 DEF Follows
<1>6. ASSUME NEW s \in S PROVE Obeys(G, s, stop, base, next, step)
  <2>1. Obeys(Up(s), s, stop, base, next, step)
    BY <1>4 DEF Follows
  <2>2. CASE s \in stop
    <3> HIDE DEF G, Up
    <3> QED BY <1>5, <2>1, <2>2 DEF Obeys
  <2>3. CASE s \notin stop
    <3> DEFINE t == next[s]
    <3>1. t \in S /\ size[t] \in Nat /\ size[s] \in Nat /\ size[t] < size[s]
      BY <2>3
    <3>2. size[t] + 1 \in Nat /\ size[s] + 1 \in Nat /\ size[t] < size[t] + 1 /\ size[t] < size[s] + 1
      BY <3>1
    <3>3. F(Up(t), size[t] + 1) /\ F(Up(s), size[s] + 1)
      BY <1>4, <3>1
    <3>4. Up(t)[t] = Up(s)[t]
      <4> HIDE DEF Up, t, F
      <4> QED BY <1>0, <3>1, <3>2, <3>3
    <3>5. G[t] = Up(t)[t] /\ G[s] = Up(s)[s]
      BY <1>5, <3>1
    <3> HIDE DEF G, Up
    <3> QED BY <2>1, <2>3, <3>4, <3>5 DEF Obeys
  <2> QED BY <2>2, <2>3
<1>7. G \in [S -> V]
  <2>1. \A s \in S : Up(s)[s] \in V
    BY <1>5
  <2> HIDE DEF Up
  <2> QED BY <2>1
<1> HIDE DEF G
<1> QED BY <1>6, <1>7

-----------------------------------------------------------------------------
(* Files, and what the reference definitions say of them *)

Byte == 0 .. 255
Files == Seq(Byte)

\* The file after its first block, of whatever length, and what the block stands for.
Rest(file) == SubSeq(file, 3, Len(file))
Beyond(file, length) == SubSeq(file, length + 1, Len(file))
Front(file, length) == SubSeq(file, 1, IF length < Len(file) THEN length ELSE Len(file))

\* The bytes of a file.
LEMMA FileType ==
  ASSUME NEW file \in Files
  PROVE  Len(file) \in Nat /\ \A i \in 1 .. Len(file) : file[i] \in Byte
BY ElementOfSeq, LenProperties DEF Files

\* What a file holds behind its first n bytes.
LEMMA BehindType ==
  ASSUME NEW file \in Files, NEW n \in Nat
  PROVE  /\ Beyond(file, n) \in Files
         /\ Len(Beyond(file, n)) = IF n < Len(file) THEN Len(file) - n ELSE 0
<1>1. Len(file) \in Nat /\ \A i \in n + 1 .. Len(file) : file[i] \in Byte
  BY FileType
<1>2. n + 1 \in Int /\ Len(file) \in Int
  BY <1>1
<1>3. /\ Beyond(file, n) \in Seq(Byte)
      /\ Len(Beyond(file, n)) = IF n + 1 <= Len(file) THEN Len(file) - (n + 1) + 1 ELSE 0
  <2> HIDE DEF Byte
  <2> QED BY <1>1, <1>2, SubSeqProperties DEF Beyond
<1> QED BY <1>1, <1>3 DEF Files

\* What it holds before.
LEMMA FrontType ==
  ASSUME NEW file \in Files, NEW n \in Nat
  PROVE  Front(file, n) \in Files
<1> DEFINE m == IF n < Len(file) THEN n ELSE Len(file)
<1>1. Len(file) \in Nat /\ \A i \in 1 .. Len(file) : file[i] \in Byte
  BY FileType
<1>2. m \in Int /\ m <= Len(file)
  BY <1>1
<1> HIDE DEF m
<1>3. \A i \in 1 .. m : file[i] \in Byte
  BY <1>1, <1>2
<1>4. SubSeq(file, 1, m) \in Seq(Byte)
  <2> HIDE DEF Byte
  <2> QED BY <1>2, <1>3, SubSeqProperties
<1> QED BY <1>4 DEF Front, Files, m

\* A file with a length: the rest, and the length.
LEMMA RestType ==
  ASSUME NEW file \in Files, ~(Len(file) < 2)
  PROVE  /\ Rest(file) \in Files /\ Len(Rest(file)) = Len(file) - 2
         /\ BlockLength(file) \in Nat
         /\ file[1] \in Byte /\ file[2] \in Byte
<1>1. Len(file) \in Nat /\ \A i \in 1 .. Len(file) : file[i] \in Byte
  BY FileType
<1>2. Rest(file) = Beyond(file, 2)
  BY DEF Rest, Beyond
<1>3. Beyond(file, 2) \in Files /\ Len(Beyond(file, 2)) = IF 2 < Len(file) THEN Len(file) - 2 ELSE 0
  BY BehindType
<1>4. Rest(file) \in Files /\ Len(Rest(file)) = Len(file) - 2
  BY <1>1, <1>2, <1>3
<1>5. file[1] \in Byte /\ file[2] \in Byte
  BY <1>1
<1>6. BlockLength(file) \in Nat
  <2> DEFINE x == file[1]
             y == file[2]
  <2>1. x \in 0 .. 255 /\ y \in 0 .. 255
    BY <1>5 DEF Byte
  <2> HIDE DEF x, y
  <2>2. x + 256 * y \in Nat
    BY <2>1
  <2> QED BY <2>1, <2>2 DEF BlockLength, x, y
<1> QED BY <1>4, <1>5, <1>6

\* What the definition of Expansion says of a file.
Expanded(f, file) ==
  IF Len(file) < 2 THEN <<>>
  ELSE LET length == BlockLength(file)
           rest == SubSeq(file, 3, Len(file))
       IN  IF length = 0 THEN f[rest]
           ELSE <<16, 232, 3, file[1], file[2]>>
                  \o SubSeq(rest, 1, IF length < Len(rest) THEN length ELSE Len(rest))
                  \o f[SubSeq(rest, length + 1, Len(rest))]

\* Expansion is the function its definition describes: the recursion ends.
LEMMA ExpansionIs ==
  \A file \in Files : Expansion[file] \in Files /\ Expansion[file] = Expanded(Expansion, file)
<1> DEFINE stop == {file \in Files : Len(file) < 2}
           size == [file \in Files |-> Len(file)]
           base == [file \in stop |-> <<>>]
           Onward(file) == IF BlockLength(file) = 0 THEN Rest(file) ELSE Beyond(Rest(file), BlockLength(file))
           next == [file \in Files \ stop |-> Onward(file)]
           Pre(file) == <<16, 232, 3, file[1], file[2]>> \o Front(Rest(file), BlockLength(file))
           Grown(file, v) == IF BlockLength(file) = 0 \/ file \in stop THEN v ELSE Pre(file) \o v
           step == [p \in Files \X Files |-> Grown(p[1], p[2])]
<1>0. \A file \in Files : Len(file) \in Nat
  BY LenProperties DEF Files
<1>1. size \in [Files -> Nat] /\ stop \subseteq Files
  BY <1>0
<1>2. base \in [stop -> Files]
  <2>1. <<>> \in Files
    BY EmptySeq DEF Files
  <2> QED BY <2>1
<1>3. ASSUME NEW file \in Files, file \notin stop
      PROVE  /\ Rest(file) \in Files
             /\ BlockLength(file) \in Nat
             /\ Onward(file) \in Files /\ Len(Onward(file)) < Len(file)
             /\ Pre(file) \in Files
  <2>1. ~(Len(file) < 2) /\ Len(file) \in Nat
    BY <1>0, <1>3
  <2>2. /\ Rest(file) \in Files /\ Len(Rest(file)) = Len(file) - 2
        /\ BlockLength(file) \in Nat /\ file[1] \in Byte /\ file[2] \in Byte
    BY <2>1, RestType
  <2> DEFINE rest == Rest(file)
             length == BlockLength(file)
  <2>3. rest \in Files /\ Len(rest) \in Nat /\ Len(rest) = Len(file) - 2 /\ length \in Nat
    BY <1>0, <2>2
  <2>4. <<16, 232, 3, file[1], file[2]>> \in Seq(Byte)
    BY <2>2 DEF Byte
  <2> HIDE DEF rest, length
  <2>5. Beyond(rest, length) \in Files /\ Front(rest, length) \in Files
        /\ Len(Beyond(rest, length)) = IF length < Len(rest) THEN Len(rest) - length ELSE 0
    BY <2>3, BehindType, FrontType
  <2>6. Len(Beyond(rest, length)) < Len(file) /\ Len(rest) < Len(file)
    BY <2>1, <2>3, <2>5
  <2>7. <<16, 232, 3, file[1], file[2]>> \o Front(rest, length) \in Files
    BY <2>4, <2>5, ConcatProperties DEF Files
  <2> QED BY <2>3, <2>5, <2>6, <2>7 DEF rest, length
<1>4. next \in [Files \ stop -> Files]
  <2> HIDE DEF stop, Onward
  <2> QED BY <1>3
<1>5. \A file \in Files \ stop : size[next[file]] < size[file]
  <2> HIDE DEF stop, Onward
  <2> QED BY <1>3
<1>6. step \in [Files \X Files -> Files]
  <2>1. ASSUME NEW p \in Files \X Files PROVE Grown(p[1], p[2]) \in Files
    <3>1. p[1] \in Files /\ p[2] \in Files
      OBVIOUS
    <3>2. CASE p[1] \in stop \/ BlockLength(p[1]) = 0
      BY <3>1, <3>2
    <3>3. CASE p[1] \notin stop /\ BlockLength(p[1]) # 0
      <4>1. Pre(p[1]) \in Files
        BY <1>3, <3>1, <3>3
      <4>2. Pre(p[1]) \o p[2] \in Files
        <5> HIDE DEF Pre
        <5> QED BY <3>1, <4>1, ConcatProperties DEF Files
      <4> HIDE DEF Pre, stop
      <4> QED BY <3>3, <4>2
    <3> QED BY <3>2, <3>3
  <2> HIDE DEF Grown
  <2> QED BY <2>1
<1>7. PICK f \in [Files -> Files] : \A file \in Files : Obeys(f, file, stop, base, next, step)
  <2> HIDE DEF stop, size, base, next, step
  <2> QED BY ZenonT(60), <1>1, <1>2, <1>4, <1>5, <1>6, Recursion
<1>8. ASSUME NEW file \in Files PROVE f[file] = Expanded(f, file)
  <2>1. CASE file \in stop
    <3>1. base[file] = <<>> /\ Len(file) < 2
      BY <2>1
    <3> HIDE DEF stop, base, next, step
    <3> QED BY <1>7, <2>1, <3>1 DEF Obeys, Expanded
  <2>2. CASE file \notin stop
    <3>1. next[file] = Onward(file) /\ Onward(file) \in Files
      <4> HIDE DEF stop, Onward
      <4> QED BY <1>3, <2>2
    <3>2. f[Onward(file)] \in Files
      <4> HIDE DEF Onward
      <4> QED BY <3>1
    <3>3. step[<<file, f[Onward(file)]>>] = Grown(file, f[Onward(file)])
      <4> HIDE DEF Onward, Grown
      <4> QED BY <3>2
    <3>4. f[file] = Grown(file, f[Onward(file)])
      <4> HIDE DEF stop, base, next, step, Onward, Grown
      <4> QED BY <1>7, <2>2, <3>1, <3>3 DEF Obeys
    <3>5. ~(Len(file) < 2)
      BY <2>2
    <3>6. CASE BlockLength(file) = 0
      <4> HIDE DEF stop
      <4> QED BY <3>4, <3>5, <3>6 DEF Expanded, Rest
    <3>7. CASE BlockLength(file) # 0
      <4>1. f[file] = Pre(file) \o f[Beyond(Rest(file), BlockLength(file))]
        <5> HIDE DEF stop, Pre
        <5> QED BY <2>2, <3>4, <3>7
      <4> QED BY <3>5, <3>7, <4>1 DEF Expanded, Rest, Beyond, Front
    <3> QED BY <3>6, <3>7
  <2> QED BY <2>1, <2>2
<1>9. f = [file \in Files |-> Expanded(f, file)]
  <2> HIDE DEF stop, base, next, step
  <2> QED BY <1>8
<1>10. Expansion = [file \in Files |-> Expanded(Expansion, file)]
  BY <1>9, ZenonT(60) DEF Expansion, Expanded, Files, Byte
<1>11. \A file \in Files : Expansion[file] = Expanded(Expansion, file)
  BY <1>10
<1>12. ASSUME NEW file \in Files,
              file \notin stop => Expansion[Onward(file)] \in Files
       PROVE  Expansion[file] \in Files
  <2>1. CASE file \in stop
    <3>1. Expansion[file] = <<>>
      BY <1>11, <2>1 DEF Expanded
    <3> QED BY <3>1, EmptySeq DEF Files
  <2>2. CASE file \notin stop
    <3>1. ~(Len(file) < 2)
      BY <2>2
    <3>2. CASE BlockLength(file) = 0
      BY <1>11, <1>12, <2>2, <3>1, <3>2 DEF Expanded, Rest
    <3>3. CASE BlockLength(file) # 0
      <4>1. Expansion[file] = Pre(file) \o Expansion[Beyond(Rest(file), BlockLength(file))]
        BY <1>11, <3>1, <3>3 DEF Expanded, Rest, Beyond, Front
      <4>2. Pre(file) \in Files /\ Expansion[Beyond(Rest(file), BlockLength(file))] \in Files
        BY <1>3, <1>12, <2>2, <3>3
      <4> HIDE DEF Pre
      <4> QED BY <4>1, <4>2, ConcatProperties DEF Files
    <3> QED BY <3>2, <3>3
  <2> QED BY <2>1, <2>2
<1>13. \A file \in Files : Expansion[file] \in Files
  <2> DEFINE Bad == {k \in Nat : \E file \in Files : Len(file) = k /\ Expansion[file] \notin Files}
  <2>1. SUFFICES ASSUME Bad # {} PROVE FALSE
    BY <1>0
  <2>2. PICK k \in Bad : \A j \in Bad : ~(j < k)
    <3>1. Bad \subseteq Nat
      OBVIOUS
    <3> HIDE DEF Bad
    <3> QED BY <2>1, <3>1, LeastNumber
  <2>3. PICK file \in Files : Len(file) = k /\ Expansion[file] \notin Files
    BY <2>2
  <2>4. file \notin stop /\ Expansion[Onward(file)] \notin Files
    <3> HIDE DEF stop, Onward
    <3> QED BY <1>12, <2>3
  <2>5. Onward(file) \in Files /\ Len(Onward(file)) < k /\ Len(Onward(file)) \in Nat
    <3>1. Onward(file) \in Files /\ Len(Onward(file)) < Len(file)
      BY <1>3, <2>4
    <3> HIDE DEF Onward
    <3> QED BY <1>0, <2>3, <3>1
  <2>6. Len(Onward(file)) \in Bad
    <3> HIDE DEF Onward
    <3> QED BY <2>4, <2>5
  <2> HIDE DEF Bad, Onward
  <2> QED BY <2>2, <2>5, <2>6
<1> QED BY <1>11, <1>13

\* So is WellFormed.
LEMMA WellFormedIs ==
  \A file \in Files :
    WellFormed[file] =
      (\/ file = <<>>
       \/ /\ ~(Len(file) < 2) /\ BlockLength(file) > 0 /\ BlockLength(file) <= Len(file) - 2
          /\ WellFormed[Beyond(file, BlockLength(file) + 2)])
<1> DEFINE Starts(file) == ~(Len(file) < 2) /\ BlockLength(file) > 0 /\ BlockLength(file) <= Len(file) - 2
           stop == {file \in Files : file = <<>> \/ ~Starts(file)}
           size == [file \in Files |-> Len(file)]
           base == [file \in stop |-> file = <<>>]
           Onward(file) == Beyond(file, BlockLength(file) + 2)
           next == [file \in Files \ stop |-> Onward(file)]
           step == [p \in Files \X BOOLEAN |-> p[2]]
<1>0. \A file \in Files : Len(file) \in Nat
  BY LenProperties DEF Files
<1>1. size \in [Files -> Nat] /\ stop \subseteq Files /\ base \in [stop -> BOOLEAN]
      /\ step \in [Files \X BOOLEAN -> BOOLEAN]
  BY <1>0
<1>2. ASSUME NEW file \in Files, file \notin stop
      PROVE  Onward(file) \in Files /\ Len(Onward(file)) < Len(file)
  <2> DEFINE length == BlockLength(file)
  <2>1. ~(Len(file) < 2) /\ Len(file) \in Nat /\ length \in Nat
    BY <1>0, <1>2, RestType
  <2> HIDE DEF length
  <2>2. length + 2 \in Nat
    BY <2>1
  <2>3. /\ Beyond(file, length + 2) \in Files
        /\ Len(Beyond(file, length + 2)) = IF length + 2 < Len(file) THEN Len(file) - (length + 2) ELSE 0
    BY <2>2, BehindType
  <2>4. Len(Beyond(file, length + 2)) < Len(file)
    BY <2>1, <2>3
  <2> QED BY <2>3, <2>4 DEF length
<1>3. next \in [Files \ stop -> Files] /\ \A file \in Files \ stop : size[next[file]] < size[file]
  <2> HIDE DEF stop, Onward
  <2> QED BY <1>2
<1>4. PICK f \in [Files -> BOOLEAN] : \A file \in Files : Obeys(f, file, stop, base, next, step)
  <2> HIDE DEF stop, size, base, next, step
  <2> QED BY <1>1, <1>3, Recursion
<1> DEFINE Says(g, file) ==
      \/ file = <<>>
      \/ /\ Len(file) >= 2
         /\ LET length == BlockLength(file)
            IN  /\ length > 0 /\ length <= Len(file) - 2
                /\ g[SubSeq(file, length + 3, Len(file))]
<1>5. ASSUME NEW file \in Files PROVE f[file] = Says(f, file)
  <2>1. CASE file \in stop
    <3>1. f[file] = (file = <<>>)
      <4> HIDE DEF stop, next, step
      <4> QED BY <1>4, <2>1 DEF Obeys
    <3>2. Len(file) \in Nat /\ (file = <<>> \/ ~Starts(file))
      BY <1>0, <2>1
    <3>3. CASE file = <<>>
      BY <3>1, <3>3
    <3>4. CASE file # <<>>
      <4>1. Says(f, file) = FALSE
        BY <3>2, <3>4
      <4>2. f[file] = FALSE
        BY <3>1, <3>4
      <4> HIDE DEF Says, stop, base, next, step
      <4> QED BY <4>1, <4>2
    <3> QED BY <3>3, <3>4
  <2>2. CASE file \notin stop
    <3>1. next[file] = Onward(file) /\ Onward(file) \in Files
      <4> HIDE DEF stop, Onward
      <4> QED BY <1>2, <2>2
    <3>2. f[Onward(file)] \in BOOLEAN
      <4> HIDE DEF Onward
      <4> QED BY <3>1
    <3>3. step[<<file, f[Onward(file)]>>] = f[Onward(file)]
      <4> HIDE DEF Onward
      <4> QED BY <3>2
    <3>4. f[file] = f[Onward(file)]
      <4> HIDE DEF stop, base, next, step, Onward
      <4> QED BY <1>4, <2>2, <3>1, <3>3 DEF Obeys
    <3>5. Starts(file) /\ file # <<>> /\ Len(file) \in Nat /\ BlockLength(file) \in Nat
      BY <1>0, <2>2, RestType
    <3>6. Onward(file) = SubSeq(file, BlockLength(file) + 3, Len(file))
      <4> DEFINE length == BlockLength(file)
      <4>1. length \in Nat
        BY <3>5
      <4> HIDE DEF length
      <4>2. length + 2 + 1 = length + 3
        BY <4>1
      <4> QED BY <4>2 DEF Beyond, length
    <3>7. f[file] = f[SubSeq(file, BlockLength(file) + 3, Len(file))]
      BY <3>4, <3>6
    <3>8. Says(f, file) = f[SubSeq(file, BlockLength(file) + 3, Len(file))]
      <4>1. f[SubSeq(file, BlockLength(file) + 3, Len(file))] \in BOOLEAN
        BY <3>2, <3>6
      <4>2. Len(file) >= 2
        BY <3>5
      <4> QED BY <3>5, <4>1, <4>2
    <3> QED BY <3>7, <3>8
  <2> QED BY <2>1, <2>2
<1>6. f = [file \in Files |-> Says(f, file)]
  <2> HIDE DEF stop, base, next, step, Says
  <2> QED BY <1>5
<1>7. WellFormed = [file \in Files |-> Says(WellFormed, file)]
  BY <1>6 DEF WellFormed, Files, Byte
<1>8. ASSUME NEW file \in Files
      PROVE  WellFormed[file] = (\/ file = <<>>
                                 \/ Starts(file) /\ WellFormed[Beyond(file, BlockLength(file) + 2)])
  <2>1. WellFormed[file] = Says(WellFormed, file)
    <3> HIDE DEF Says
    <3> QED BY <1>7
  <2>2. Len(file) \in Nat
    BY <1>0
  <2>3. Len(file) >= 2 <=> ~(Len(file) < 2)
    BY <2>2
  <2>4. ~(Len(file) < 2) => Beyond(file, BlockLength(file) + 2) = SubSeq(file, BlockLength(file) + 3, Len(file))
    <3> HAVE ~(Len(file) < 2)
    <3> DEFINE length == BlockLength(file)
    <3>1. length \in Nat
      BY RestType
    <3> HIDE DEF length
    <3>2. length + 2 + 1 = length + 3
      BY <3>1
    <3> QED BY <3>2 DEF Beyond, length
  <2> QED BY <2>1, <2>3, <2>4
<1> QED BY <1>8

(***************************************************************************)
(* A block whose length is known, with what follows it.                    *)
(***************************************************************************)
Prefix(low, high) == <<16, 232, 3, low, high>>
Length(low, high) == 256 * high + low
Block(rest, remaining) == Front(rest, remaining) \o Expansion[Beyond(rest, remaining)]
IsWhole(rest, remaining) == remaining <= Len(rest) /\ WellFormed[Beyond(rest, remaining)]

\* The first k elements of a sequence.
LEMMA FirstElements ==
  ASSUME NEW S, NEW s, NEW k \in Nat, \A i \in 1 .. k : s[i] \in S
  PROVE  /\ SubSeq(s, 1, k) \in Seq(S)
         /\ Len(SubSeq(s, 1, k)) = k
         /\ \A i \in 1 .. k : SubSeq(s, 1, k)[i] = s[i]
<1> SUFFICES ASSUME NEW one \in Int, one = 1
             PROVE  /\ SubSeq(s, one, k) \in Seq(S)
                    /\ Len(SubSeq(s, one, k)) = k
                    /\ \A i \in 1 .. k : SubSeq(s, one, k)[i] = s[i]
  OBVIOUS
<1>1. \A i \in one .. k : s[i] \in S
  OBVIOUS
<1> DEFINE t == SubSeq(s, one, k)
<1>2. /\ t \in Seq(S)
      /\ Len(t) = IF one <= k THEN k - one + 1 ELSE 0
      /\ \A i \in 1 .. k - one + 1 : t[i] = s[one + i - 1]
  <2>1. one \in Int /\ k \in Int
    OBVIOUS
  <2> QED BY ONLY <1>1, <2>1, SubSeqProperties
<1> HIDE DEF t
<1>3. /\ t \in Seq(S)
      /\ Len(t) = k
      /\ \A i \in 1 .. k : t[i] = s[i]
  BY <1>2
<1> QED BY <1>3 DEF t

\* A file and the byte before it.
With(byte, rest) == <<byte>> \o rest
First(file) == file[1]
Second(file) == file[2]

\* A file that starts with a length of two bytes.
LEMMA Pair ==
  ASSUME NEW low \in Byte, NEW high \in Byte, NEW rest \in Files,
         NEW file, file = With(low, With(high, rest))
  PROVE  /\ file \in Files
         /\ Len(file) = Len(rest) + 2
         /\ First(file) = low /\ Second(file) = high
         /\ BlockLength(file) = Length(low, high)
         /\ Rest(file) = rest
         /\ \A n \in Nat : Beyond(file, n + 2) = Beyond(rest, n)
         /\ Length(low, high) \in Nat /\ Length(low, high) < 256 * 256
<1>0. file = <<low>> \o (<<high>> \o rest)
  BY DEF With
<1>1. Len(rest) \in Nat /\ \A i \in 1 .. Len(rest) : rest[i] \in Byte
  BY FileType
<1>2. <<low>> \in Seq(Byte) /\ <<high>> \in Seq(Byte) /\ Len(<<low>>) = 1 /\ Len(<<high>>) = 1
      /\ <<low>>[1] = low /\ <<high>>[1] = high
  OBVIOUS
<1>3. /\ <<high>> \o rest \in Seq(Byte)
      /\ Len(<<high>> \o rest) = 1 + Len(rest)
      /\ \A i \in 1 .. 1 + Len(rest) : (<<high>> \o rest)[i] = IF i <= 1 THEN <<high>>[i] ELSE rest[i - 1]
  <2> HIDE DEF Byte
  <2> QED BY <1>2, ConcatProperties DEF Files
<1>4. /\ file \in Seq(Byte)
      /\ Len(file) = 1 + (1 + Len(rest))
      /\ \A i \in 1 .. 1 + (1 + Len(rest)) : file[i] = IF i <= 1 THEN <<low>>[i] ELSE (<<high>> \o rest)[i - 1]
  <2> HIDE DEF Byte
  <2>1. Len(<<low>>) + Len(<<high>> \o rest) = 1 + (1 + Len(rest))
    BY <1>2, <1>3
  <2> QED BY <1>0, <1>2, <1>3, <2>1, ConcatProperties
<1>5. file[1] = low /\ file[2] = high /\ Len(file) = Len(rest) + 2
  <2>1. 1 \in 1 .. 1 + (1 + Len(rest)) /\ 2 \in 1 .. 1 + (1 + Len(rest)) /\ 1 \in 1 .. 1 + Len(rest)
    BY <1>1
  <2>2. file[2] = (<<high>> \o rest)[1]
    <3>1. file[2] = IF 2 <= 1 THEN <<low>>[2] ELSE (<<high>> \o rest)[2 - 1]
      BY <1>4, <2>1
    <3> QED BY <3>1
  <2> QED BY <1>1, <1>2, <1>3, <1>4, <2>1, <2>2
<1>6. \A i \in 1 .. Len(rest) : file[i + 2] = rest[i]
  <2> TAKE i \in 1 .. Len(rest)
  <2>1. i + 2 \in 1 .. 1 + (1 + Len(rest)) /\ i + 2 - 1 = i + 1
        /\ i + 1 \in 1 .. 1 + Len(rest) /\ i + 1 - 1 = i /\ ~(i + 2 <= 1) /\ ~(i + 1 <= 1)
    BY <1>1
  <2>2. file[i + 2] = (<<high>> \o rest)[i + 1]
    BY <1>4, <2>1
  <2>3. (<<high>> \o rest)[i + 1] = rest[i]
    BY <1>3, <2>1
  <2> QED BY <2>2, <2>3
<1>7. ASSUME NEW n \in Nat PROVE Beyond(file, n + 2) = Beyond(rest, n)
  <2>0. file \in Files /\ n + 2 \in Nat
    BY <1>4 DEF Files
  <2>1. /\ Beyond(file, n + 2) \in Files
        /\ Len(Beyond(file, n + 2)) = IF n + 2 < Len(file) THEN Len(file) - (n + 2) ELSE 0
    BY <2>0, BehindType
  <2>2. /\ Beyond(rest, n) \in Files
        /\ Len(Beyond(rest, n)) = IF n < Len(rest) THEN Len(rest) - n ELSE 0
    BY BehindType
  <2>3. Len(Beyond(file, n + 2)) = Len(Beyond(rest, n))
    <3>1. n \in Nat /\ Len(rest) \in Nat /\ Len(file) = Len(rest) + 2
      BY <1>1, <1>5
    <3> QED BY ONLY <2>1, <2>2, <3>1
  <2>4. ASSUME NEW i \in 1 .. Len(Beyond(rest, n)) PROVE Beyond(file, n + 2)[i] = Beyond(rest, n)[i]
    <3>1. i \in Nat /\ n + i \in 1 .. Len(rest) /\ n + i + 2 \in 1 .. Len(file)
      BY <1>1, <1>5, <2>2
    <3>2. /\ \A j \in n + 1 .. Len(rest) : rest[j] \in Byte
          /\ \A j \in n + 2 + 1 .. Len(file) : file[j] \in Byte
      BY <1>1, <2>0, FileType
    <3>3. i \in 1 .. Len(rest) - (n + 1) + 1 /\ i \in 1 .. Len(file) - (n + 2 + 1) + 1
      BY <1>1, <1>5, <3>1
    <3>4. Beyond(rest, n)[i] = rest[n + 1 + i - 1]
      <4> HIDE DEF Byte
      <4>1. n + 1 \in Int /\ Len(rest) \in Int
        BY <1>1
      <4> QED BY <3>2, <3>3, <4>1, SubSeqProperties DEF Beyond
    <3>5. Beyond(file, n + 2)[i] = file[n + 2 + 1 + i - 1]
      <4> HIDE DEF Byte
      <4>1. n + 2 + 1 \in Int /\ Len(file) \in Int
        BY <1>1, <1>5
      <4> QED BY <3>2, <3>3, <4>1, SubSeqProperties DEF Beyond
    <3>6. n + 1 + i - 1 = n + i /\ n + 2 + 1 + i - 1 = n + i + 2
      BY <3>1
    <3> QED BY <1>6, <3>1, <3>4, <3>5, <3>6
  <2> HIDE DEF Byte
  <2> QED BY <2>1, <2>2, <2>3, <2>4, SeqEqual DEF Files
<1>8. Rest(file) = rest
  <2>1. Beyond(file, 0 + 2) = Beyond(rest, 0)
    BY <1>7
  <2>2. Beyond(rest, 0) = rest
    <3> HIDE DEF Byte
    <3> QED BY SubSeqFull DEF Beyond, Files
  <2> QED BY <2>1, <2>2 DEF Rest, Beyond
<1>9. BlockLength(file) = Length(low, high)
  BY <1>5 DEF BlockLength, Length, Byte
<1>10. Length(low, high) \in Nat /\ Length(low, high) < 256 * 256
  BY SMT DEF Length, Byte
<1>11. file \in Files
  BY <1>4 DEF Files
<1>12. \A n \in Nat : Beyond(file, n + 2) = Beyond(rest, n)
  BY <1>7
<1>13. /\ file \in Files
       /\ Len(file) = Len(rest) + 2
       /\ First(file) = low /\ Second(file) = high
  BY ONLY <1>5, <1>11 DEF First, Second
<1>14. /\ BlockLength(file) = Length(low, high)
       /\ Rest(file) = rest
  BY ONLY <1>8, <1>9
<1> QED BY ONLY <1>10, <1>12, <1>13, <1>14

\* What such a file stands for: nothing of its own, or the prefix and the block.
LEMMA Opened ==
  ASSUME NEW low \in Byte, NEW high \in Byte, NEW rest \in Files
  PROVE  /\ Expansion[With(low, With(high, rest))] =
              IF Length(low, high) = 0 THEN Expansion[rest]
              ELSE Prefix(low, high) \o Block(rest, Length(low, high))
         /\ WellFormed[With(low, With(high, rest))] =
              (Length(low, high) > 0 /\ IsWhole(rest, Length(low, high)))
<1> SUFFICES ASSUME NEW file, file = With(low, With(high, rest))
             PROVE  /\ Expansion[file] = IF Length(low, high) = 0 THEN Expansion[rest]
                                         ELSE Prefix(low, high) \o Block(rest, Length(low, high))
                    /\ WellFormed[file] = (Length(low, high) > 0 /\ IsWhole(rest, Length(low, high)))
  OBVIOUS
<1> DEFINE length == Length(low, high)
<1>1. /\ file \in Files
      /\ Len(file) = Len(rest) + 2
      /\ file[1] = low /\ file[2] = high
      /\ BlockLength(file) = length
      /\ Rest(file) = rest
      /\ \A n \in Nat : Beyond(file, n + 2) = Beyond(rest, n)
      /\ length \in Nat
  <2>1. low \in Byte /\ high \in Byte /\ rest \in Files /\ file = With(low, With(high, rest))
    OBVIOUS
  <2>2. file \in Files
    BY ONLY <2>1, Pair
  <2>3. Len(file) = Len(rest) + 2
    BY ONLY <2>1, Pair
  <2>7. file[1] = low /\ file[2] = high
    <3>1. First(file) = low /\ Second(file) = high
      BY ONLY <2>1, Pair
    <3> QED BY <3>1 DEF First, Second
  <2>4. BlockLength(file) = length /\ length \in Nat
    BY ONLY <2>1, Pair DEF length
  <2>5. Rest(file) = rest
    BY ONLY <2>1, Pair
  <2>6. \A n \in Nat : Beyond(file, n + 2) = Beyond(rest, n)
    BY ONLY <2>1, Pair
  <2> HIDE DEF length
  <2> QED BY ONLY <2>2, <2>3, <2>4, <2>5, <2>6, <2>7
<1>2. Len(rest) \in Nat
  BY FileType
<1> HIDE DEF length
<1>3. ~(Len(file) < 2) /\ (length <= Len(file) - 2 <=> length <= Len(rest))
  BY ONLY <1>1, <1>2
<1>4. Expansion[file] = IF length = 0 THEN Expansion[rest] ELSE Prefix(low, high) \o Block(rest, length)
  <2>1. Expansion[file] = Expanded(Expansion, file)
    BY <1>1, ExpansionIs
  <2>2. CASE length = 0
    BY <1>1, <1>3, <2>1, <2>2, ZenonT(60) DEF Expanded, Rest
  <2>3. CASE length # 0
    <3>1. Expansion[file] = Prefix(low, high) \o Front(rest, length) \o Expansion[Beyond(rest, length)]
      <4>1. SubSeq(file, 3, Len(file)) = rest
        BY <1>1 DEF Rest
      <4>2. Expanded(Expansion, file) =
              <<16, 232, 3, file[1], file[2]>>
                \o SubSeq(rest, 1, IF length < Len(rest) THEN length ELSE Len(rest))
                \o Expansion[SubSeq(rest, length + 1, Len(rest))]
        BY <1>1, <1>3, <2>3, <4>1, ZenonT(60) DEF Expanded
      <4>3. Prefix(low, high) = <<16, 232, 3, file[1], file[2]>>
        BY <1>1 DEF Prefix
      <4> QED BY <2>1, <4>2, <4>3 DEF Front, Beyond
    <3>2. Prefix(low, high) \in Seq(Byte)
      BY DEF Prefix, Byte
    <3>3. Front(rest, length) \in Seq(Byte)
      BY <1>1, FrontType DEF Files
    <3>4. Beyond(rest, length) \in Files
      BY <1>1, BehindType
    <3>5. Expansion[Beyond(rest, length)] \in Seq(Byte)
      BY <3>4, ExpansionIs DEF Files
    <3> DEFINE a == Prefix(low, high)
               b == Front(rest, length)
               c == Expansion[Beyond(rest, length)]
    <3>6. a \in Seq(Byte) /\ b \in Seq(Byte) /\ c \in Seq(Byte) /\ Expansion[file] = a \o b \o c
      BY <3>1, <3>2, <3>3, <3>5
    <3> HIDE DEF a, b, c, Byte
    <3>7. Expansion[file] = a \o (b \o c)
      BY ONLY <3>6, ConcatAssociative
    <3> QED BY <2>3, <3>7 DEF a, b, c, Block
  <2> QED BY <2>2, <2>3
<1>5. WellFormed[file] = (length > 0 /\ IsWhole(rest, length))
  <2>0. file # <<>>
    <3>1. Len(file) # 0
      BY <1>1, <1>2
    <3> QED BY <3>1, EmptySeq
  <2>1. WellFormed[file] = (length > 0 /\ length <= Len(rest) /\ WellFormed[Beyond(file, length + 2)])
    BY <1>1, <1>3, <2>0, WellFormedIs
  <2>2. Beyond(file, length + 2) = Beyond(rest, length)
    BY <1>1
  <2> QED BY <2>1, <2>2 DEF IsWhole
<1> QED BY <1>4, <1>5 DEF length

\* What stands for nothing: no bytes, half a length, a block that has not begun.
LEMMA NothingLeft ==
  /\ <<>> \in Files /\ Expansion[<<>>] = <<>> /\ WellFormed[<<>>]
  /\ \A low \in Byte : <<low>> \in Files /\ Expansion[<<low>>] = <<>> /\ ~WellFormed[<<low>>]
  /\ \A n \in Nat \ {0} : Block(<<>>, n) = <<>> /\ ~IsWhole(<<>>, n)
<1>1. <<>> \in Files /\ Len(<<>>) = 0
  BY EmptySeq DEF Files
<1>2. Expansion[<<>>] = <<>> /\ WellFormed[<<>>]
  <2>1. Len(<<>>) < 2
    BY <1>1
  <2>2. Expansion[<<>>] = Expanded(Expansion, <<>>)
    BY <1>1, ExpansionIs
  <2>3. Expanded(Expansion, <<>>) = <<>>
    BY <2>1 DEF Expanded
  <2> QED BY <1>1, <2>2, <2>3, WellFormedIs
<1>3. ASSUME NEW low \in Byte PROVE <<low>> \in Files /\ Expansion[<<low>>] = <<>> /\ ~WellFormed[<<low>>]
  <2>1. <<low>> \in Files /\ Len(<<low>>) = 1 /\ <<low>> # <<>>
    BY DEF Files
  <2>2. Len(<<low>>) < 2
    BY <2>1
  <2>3. Expansion[<<low>>] = Expanded(Expansion, <<low>>)
    BY <2>1, ExpansionIs
  <2>4. Expanded(Expansion, <<low>>) = <<>>
    BY <2>2 DEF Expanded
  <2>5. ~WellFormed[<<low>>]
    BY <2>1, <2>2, WellFormedIs
  <2> QED BY <2>1, <2>3, <2>4, <2>5
<1>4. ASSUME NEW n \in Nat \ {0} PROVE Block(<<>>, n) = <<>> /\ ~IsWhole(<<>>, n)
  <2>1. Front(<<>>, n) = <<>>
    BY <1>1, SubSeqEmpty DEF Front
  <2>2. Beyond(<<>>, n) = <<>>
    BY <1>1, SubSeqEmpty DEF Beyond
  <2>3. <<>> \o <<>> = <<>>
    BY EmptySeq, ConcatEmptySeq
  <2>4. ~(n <= Len(<<>>))
    BY <1>1
  <2> QED BY <1>2, <2>1, <2>2, <2>3, <2>4 DEF Block, IsWhole
<1> QED BY <1>1, <1>2, <1>3, <1>4

\* A block of which nothing remains.
LEMMA NoBlock ==
  ASSUME NEW rest \in Files
  PROVE  Block(rest, 0) = Expansion[rest] /\ IsWhole(rest, 0) = WellFormed[rest]
<1>1. Len(rest) \in Nat
  BY FileType
<1>2. Front(rest, 0) = <<>>
  <2>1. (IF 0 < Len(rest) THEN 0 ELSE Len(rest)) = 0
    BY <1>1
  <2> QED BY <2>1, SubSeqEmpty DEF Front
<1>3. Beyond(rest, 0) = rest
  <2> HIDE DEF Byte
  <2> QED BY SubSeqFull DEF Beyond, Files
<1>4. Expansion[rest] \in Seq(Byte)
  BY ExpansionIs DEF Files
<1>5. <<>> \o Expansion[rest] = Expansion[rest]
  <2> HIDE DEF Byte
  <2> QED BY <1>4, ConcatEmptySeq
<1>6. WellFormed[rest] \in BOOLEAN
  BY WellFormedIs
<1>7. Block(rest, 0) = Expansion[rest]
  BY ONLY <1>2, <1>3, <1>5 DEF Block
<1>8. 0 <= Len(rest)
  BY <1>1
<1>9. IsWhole(rest, 0) = WellFormed[rest]
  BY ONLY <1>3, <1>6, <1>8 DEF IsWhole
<1> QED BY <1>7, <1>9

\* A byte of a block stands for itself.
LEMMA ByteOfBlock ==
  ASSUME NEW byte \in Byte, NEW rest \in Files, NEW n \in Nat
  PROVE  /\ Block(With(byte, rest), n + 1) = <<byte>> \o Block(rest, n)
         /\ IsWhole(With(byte, rest), n + 1) = IsWhole(rest, n)
<1> SUFFICES ASSUME NEW file, file = <<byte>> \o rest
             PROVE  Block(file, n + 1) = <<byte>> \o Block(rest, n) /\ IsWhole(file, n + 1) = IsWhole(rest, n)
  BY DEF With
<1>1. Len(rest) \in Nat /\ \A i \in 1 .. Len(rest) : rest[i] \in Byte
  BY FileType
<1>2. <<byte>> \in Seq(Byte) /\ Len(<<byte>>) = 1 /\ <<byte>>[1] = byte
  OBVIOUS
<1>3. /\ file \in Files
      /\ Len(file) = 1 + Len(rest)
      /\ \A i \in 1 .. 1 + Len(rest) : file[i] = IF i <= 1 THEN <<byte>>[i] ELSE rest[i - 1]
  <2> HIDE DEF Byte
  <2> QED BY <1>2, ConcatProperties DEF Files
<1>4. file[1] = byte /\ \A i \in 1 .. Len(rest) : file[i + 1] = rest[i]
  <2>1. file[1] = byte
    <3>1. 1 \in 1 .. 1 + Len(rest) /\ 1 <= 1
      BY <1>1
    <3> QED BY <1>2, <1>3, <3>1
  <2>2. ASSUME NEW i \in 1 .. Len(rest) PROVE file[i + 1] = rest[i]
    <3>1. i + 1 \in 1 .. 1 + Len(rest) /\ ~(i + 1 <= 1) /\ i + 1 - 1 = i
      BY <1>1
    <3> QED BY <1>3, <3>1
  <2> QED BY <2>1, <2>2
<1>5. Beyond(file, n + 1) = Beyond(rest, n)
  <2>1. /\ Beyond(file, n + 1) \in Files
        /\ Len(Beyond(file, n + 1)) = IF n + 1 < Len(file) THEN Len(file) - (n + 1) ELSE 0
    <3>1. n + 1 \in Nat
      OBVIOUS
    <3> QED BY <1>3, <3>1, BehindType
  <2>2. /\ Beyond(rest, n) \in Files
        /\ Len(Beyond(rest, n)) = IF n < Len(rest) THEN Len(rest) - n ELSE 0
    BY BehindType
  <2>3. Len(Beyond(file, n + 1)) = Len(Beyond(rest, n))
    <3>1. n \in Nat /\ Len(rest) \in Nat /\ Len(file) = 1 + Len(rest)
      BY <1>1, <1>3
    <3> QED BY ONLY <2>1, <2>2, <3>1
  <2>4. ASSUME NEW i \in 1 .. Len(Beyond(rest, n)) PROVE Beyond(file, n + 1)[i] = Beyond(rest, n)[i]
    <3>1. /\ i \in Nat /\ n + i \in 1 .. Len(rest) /\ i \in 1 .. Len(rest) - (n + 1) + 1
          /\ i \in 1 .. Len(file) - (n + 1 + 1) + 1
          /\ n + 1 + i - 1 = n + i /\ n + 1 + 1 + i - 1 = n + i + 1
      <4>1. n \in Nat /\ Len(rest) \in Nat /\ Len(file) = 1 + Len(rest) /\ i \in 1 .. Len(Beyond(rest, n))
        BY <1>1, <1>3
      <4> QED BY ONLY <2>2, <4>1
    <3>2. /\ \A j \in n + 1 .. Len(rest) : rest[j] \in Byte
          /\ \A j \in n + 1 + 1 .. Len(file) : file[j] \in Byte
      BY <1>1, <1>3, FileType
    <3>3. Beyond(rest, n)[i] = rest[n + 1 + i - 1]
      <4> HIDE DEF Byte
      <4>1. n + 1 \in Int /\ Len(rest) \in Int
        BY <1>1
      <4> QED BY <3>1, <3>2, <4>1, SubSeqProperties DEF Beyond
    <3>4. Beyond(file, n + 1)[i] = file[n + 1 + 1 + i - 1]
      <4> HIDE DEF Byte
      <4>1. n + 1 + 1 \in Int /\ Len(file) \in Int
        BY <1>1, <1>3
      <4> QED BY <3>1, <3>2, <4>1, SubSeqProperties DEF Beyond
    <3> QED BY <1>4, <3>1, <3>3, <3>4
  <2> HIDE DEF Byte
  <2> QED BY <2>1, <2>2, <2>3, <2>4, SeqEqual DEF Files
<1>6. Front(file, n + 1) = <<byte>> \o Front(rest, n)
  <2> DEFINE m == IF n < Len(rest) THEN n ELSE Len(rest)
  <2>1. /\ m \in Nat /\ m <= Len(rest)
        /\ (IF n + 1 < Len(file) THEN n + 1 ELSE Len(file)) = m + 1
    <3>1. n \in Nat /\ Len(rest) \in Nat /\ Len(file) = 1 + Len(rest)
      BY <1>1, <1>3
    <3> QED BY ONLY <3>1
  <2>2. Front(file, n + 1) = SubSeq(file, 1, m + 1) /\ Front(rest, n) = SubSeq(rest, 1, m)
    BY <2>1 DEF Front
  <2> HIDE DEF m
  <2> DEFINE k == m + 1
             s == SubSeq(file, 1, k)
             t == SubSeq(rest, 1, m)
             u == <<byte>> \o t
  <2>3. /\ s \in Seq(Byte) /\ Len(s) = m + 1 /\ \A i \in 1 .. m + 1 : s[i] = file[i]
    <3>1. k \in Nat /\ \A i \in 1 .. k : file[i] \in Byte
      BY <1>1, <1>3, <2>1, FileType
    <3> HIDE DEF k, Byte
    <3>2. s \in Seq(Byte) /\ Len(s) = k /\ \A i \in 1 .. k : s[i] = file[i]
      BY ONLY <3>1, FirstElements DEF s
    <3> HIDE DEF s
    <3> QED BY <3>2 DEF k
  <2>4. /\ t \in Seq(Byte) /\ Len(t) = m /\ \A i \in 1 .. m : t[i] = rest[i]
    <3>1. m \in Nat /\ \A i \in 1 .. m : rest[i] \in Byte
      BY <1>1, <2>1
    <3> HIDE DEF Byte
    <3> QED BY <3>1, FirstElements
  <2> HIDE DEF s, t
  <2>5. /\ u \in Seq(Byte) /\ Len(u) = 1 + m
        /\ \A i \in 1 .. 1 + m : u[i] = IF i <= 1 THEN <<byte>>[i] ELSE t[i - 1]
    <3> HIDE DEF Byte
    <3> QED BY <1>2, <2>4, ConcatProperties
  <2> HIDE DEF u
  <2>6. ASSUME NEW i \in 1 .. Len(s) PROVE s[i] = u[i]
    <3>1. i \in Nat /\ i \in 1 .. m + 1 /\ i \in 1 .. 1 + m
      BY <2>1, <2>3
    <3>2. CASE i = 1
      <4>1. i <= 1
        BY <3>2
      <4>2. u[i] = <<byte>>[i]
        BY <2>5, <3>1, <4>1
      <4> QED BY <1>2, <1>4, <2>3, <3>1, <3>2, <4>2
    <3>3. CASE i # 1
      <4>1. i - 1 \in 1 .. m /\ i - 1 \in 1 .. Len(rest) /\ i - 1 + 1 = i /\ ~(i <= 1)
        BY <1>1, <2>1, <3>1, <3>3
      <4>2. s[i] = file[i - 1 + 1]
        BY <2>3, <3>1, <4>1
      <4>3. u[i] = t[i - 1]
        BY <2>5, <3>1, <4>1
      <4> QED BY <1>4, <2>4, <4>1, <4>2, <4>3
    <3> QED BY <3>2, <3>3
  <2>7. s = u
    <3>1. Len(s) = Len(u)
      BY <2>1, <2>3, <2>5
    <3> HIDE DEF Byte
    <3> QED BY <2>3, <2>5, <2>6, <3>1, SeqEqual
  <2> QED BY <2>2, <2>7 DEF k, s, t, u
<1>7. Block(file, n + 1) = <<byte>> \o Block(rest, n)
  <2> DEFINE a == <<byte>>
             b == Front(rest, n)
             c == Expansion[Beyond(rest, n)]
  <2>0. a \in Seq(Byte)
    BY <1>2
  <2>1. b \in Seq(Byte)
    BY FrontType DEF Files
  <2>2. c \in Seq(Byte)
    BY BehindType, ExpansionIs DEF Files
  <2>3. Block(file, n + 1) = a \o b \o c /\ Block(rest, n) = b \o c
    BY <1>5, <1>6 DEF Block
  <2> HIDE DEF a, b, c, Byte
  <2>4. a \o b \o c = a \o (b \o c)
    BY <2>0, <2>1, <2>2, ConcatAssociative
  <2> QED BY <2>3, <2>4 DEF a
<1>8. IsWhole(file, n + 1) = IsWhole(rest, n)
  <2>1. n + 1 <= Len(file) <=> n <= Len(rest)
    <3>1. n \in Nat /\ Len(rest) \in Nat /\ Len(file) = 1 + Len(rest)
      BY <1>1, <1>3
    <3> QED BY ONLY <3>1
  <2> QED BY <1>5, <2>1 DEF IsWhole
<1> QED BY <1>7, <1>8

-----------------------------------------------------------------------------
(***************************************************************************)
(* What the converter still has to emit, and what it still has to see, if  *)
(* the bytes in rest are all that is to come.                              *)
(***************************************************************************)
Owed(c, rest) ==
  CASE c.state = "HEADER"       -> SubSeq(Header, c.emit_index + 1, HeaderLength) \o Expansion[rest]
    [] c.state = "LENGTH_HIGH"  -> Expansion[With(c.low, rest)]
    [] c.state = "BLOCK_HEADER" -> SubSeq(Prefix(c.low, c.high), c.emit_index + 1, PrefixLength)
                                     \o Block(rest, c.remaining)
    [] c.state = "DATA"         -> Block(rest, c.remaining)
    [] OTHER                    -> Expansion[rest]

Good(c, rest) ==
  /\ ~c.fault
  /\ CASE c.state = "LENGTH_HIGH"               -> WellFormed[With(c.low, rest)]
       [] c.state \in {"BLOCK_HEADER", "DATA"}  -> IsWhole(rest, c.remaining)
       [] OTHER                                 -> WellFormed[rest]

\* What has been emitted, with the byte on its way.
Sent == IF converter.output_valid THEN Append(output, converter.output_byte) ELSE output
Onto(c, symbols) == IF c.output_valid THEN <<c.output_byte>> \o symbols ELSE symbols

Symbol == Byte \cup {HeaderByte(index) : index \in Nat}
Registers ==
  [state : States, emit_index : Nat, low : Byte, high : Byte, remaining : Nat,
   output_byte : Symbol, output_valid : BOOLEAN, output_done : BOOLEAN, fault : BOOLEAN]

\* The registers' types, and what each state takes for granted of them.
Sound(c) ==
  /\ c \in Registers
  /\ c.emit_index < IF c.state = "HEADER" THEN HeaderLength ELSE PrefixLength
  /\ c.remaining < 256 * 256
  /\ c.state \in {"BLOCK_HEADER", "DATA"} => c.remaining > 0
  /\ c.state = "BLOCK_HEADER" => c.remaining = Length(c.low, c.high)

Typed ==
  /\ Sound(converter) /\ input \in Seq(TapBytes) /\ output \in Seq(Symbol)
  /\ ended \in [input : BOOLEAN, output : BOOLEAN]
  /\ ended.input => converter.state \in {"FINISH", "LENGTH_LOW"}

\* Before the first file.
Fresh == input = <<>> /\ output = <<>> /\ ~converter.output_valid

\* Header and expansion of the file are what was sent and what is owed, whatever
\* is to come.
Converts ==
  IF ended.input THEN Fresh \/ Sent = Header \o Expansion[input]
  ELSE \A rest \in Files : Header \o Expansion[input \o rest] = Sent \o Owed(converter, rest)

\* The same for the verdict.
Judges ==
  IF ended.input THEN converter.fault <=> ~WellFormed[input]
  ELSE \A rest \in Files : WellFormed[input \o rest] <=> Good(converter, rest)

TapInv == Typed /\ Converts /\ Judges

\* Bytes, files and the header are sequences of what the converter emits.
LEMMA Kinds ==
  /\ Byte \subseteq Symbol /\ Files \subseteq Seq(Symbol)
  /\ Header \in Seq(Symbol) /\ Len(Header) = HeaderLength
  /\ \A index \in Nat : index < HeaderLength => Header[index + 1] = HeaderByte(index)
  /\ \A index \in Nat : HeaderByte(index) \in Symbol
<1>1. Byte \subseteq Symbol /\ \A index \in Nat : HeaderByte(index) \in Symbol
  BY DEF Symbol
<1>2. ASSUME NEW file \in Files PROVE file \in Seq(Symbol)
  <2> HIDE DEF Byte, Symbol
  <2> QED BY <1>1, SeqMonotonic DEF Files
<1>3. \A index \in 1 .. HeaderLength : Header[index] = HeaderByte(index - 1) /\ index - 1 \in Nat
  BY TapAssumption DEF Header
<1>4. Header \in [1 .. HeaderLength -> Symbol]
  <2> HIDE DEF Symbol, HeaderByte
  <2> QED BY <1>1, <1>3 DEF Header
<1>5. Header \in Seq(Symbol) /\ Len(Header) = HeaderLength
  <2> HIDE DEF Symbol, Header
  <2>1. HeaderLength \in Nat
    BY TapAssumption
  <2>2. Header \in Seq(Symbol)
    BY <1>4, <2>1, SeqDef
  <2>3. DOMAIN Header = 1 .. HeaderLength /\ DOMAIN Header = 1 .. Len(Header) /\ Len(Header) \in Nat
    BY <1>4, <2>2, LenProperties
  <2> QED BY <2>1, <2>2, <2>3
<1>6. ASSUME NEW index \in Nat, index < HeaderLength PROVE Header[index + 1] = HeaderByte(index)
  <2>1. index + 1 \in 1 .. HeaderLength /\ index + 1 - 1 = index
    BY <1>6, TapAssumption
  <2> QED BY <1>3, <2>1
<1> QED BY <1>1, <1>2, <1>5, <1>6

\* What is left of a constant after some of its bytes, with what follows it.
LEMMA PeelOff ==
  ASSUME NEW s \in Seq(Symbol), NEW n \in Nat, n = Len(s), NEW e \in Nat, e < n, NEW t \in Seq(Symbol)
  PROVE  /\ SubSeq(s, e + 1, n) \o t = <<s[e + 1]>> \o (SubSeq(s, e + 1 + 1, n) \o t)
         /\ e = n - 1 => SubSeq(s, e + 1, n) \o t = <<s[e + 1]>> \o t
<1>1. e + 1 \in 1 .. Len(s) /\ n \in e + 1 .. Len(s)
  OBVIOUS
<1>2. SubSeq(s, e + 1, n) = <<s[e + 1]>> \o SubSeq(s, e + 1 + 1, n)
  BY <1>1, SubSeqRecursiveFirst
<1> DEFINE a == <<s[e + 1]>>
           b == SubSeq(s, e + 1 + 1, n)
<1>3. s[e + 1] \in Symbol
  BY <1>1, ElementOfSeq
<1>4. a \in Seq(Symbol)
  <2> HIDE DEF Symbol
  <2> QED BY <1>3
<1>5. b \in Seq(Symbol)
  <2>1. \A i \in e + 1 + 1 .. n : s[i] \in Symbol
    <3>1. \A i \in e + 1 + 1 .. n : i \in 1 .. Len(s)
      OBVIOUS
    <3> HIDE DEF Symbol
    <3> QED BY <3>1, ElementOfSeq
  <2>2. e + 1 + 1 \in Int /\ n \in Int
    OBVIOUS
  <2> HIDE DEF Symbol
  <2> QED BY <2>1, <2>2, SubSeqProperties
<1>6. SubSeq(s, e + 1, n) \o t = a \o b \o t
  BY <1>2
<1>7. e = n - 1 => b = <<>>
  <2>1. e = n - 1 => n < e + 1 + 1
    OBVIOUS
  <2>2. e + 1 + 1 \in Int /\ n \in Int
    OBVIOUS
  <2> QED BY <2>1, <2>2, SubSeqEmpty
<1> HIDE DEF a, b, Symbol
<1>8. a \o b \o t = a \o (b \o t)
  BY <1>4, <1>5, ConcatAssociative
<1>9. b = <<>> => b \o t = t
  BY ConcatEmptySeq
<1> QED BY <1>6, <1>7, <1>8, <1>9 DEF a, b

\* A block is made of such symbols.
LEMMA BlockType ==
  ASSUME NEW rest \in Files, NEW n \in Nat
  PROVE  Block(rest, n) \in Seq(Symbol)
<1>1. Front(rest, n) \in Files /\ Expansion[Beyond(rest, n)] \in Files
  BY FrontType, BehindType, ExpansionIs
<1>2. Block(rest, n) \in Seq(Byte)
  <2> HIDE DEF Byte
  <2> QED BY <1>1, ConcatProperties DEF Block, Files
<1> QED BY <1>2, Kinds DEF Files

\* A byte before a file is a file.
LEMMA WithType ==
  ASSUME NEW byte \in Byte, NEW rest \in Files
  PROVE  With(byte, rest) \in Files
<1>1. <<byte>> \in Seq(Byte)
  OBVIOUS
<1> HIDE DEF Byte
<1> QED BY <1>1, ConcatProperties DEF With, Files

\* The prefix of a block, byte by byte (block_header_byte).
LEMMA PrefixIs ==
  ASSUME NEW low \in Byte, NEW high \in Byte
  PROVE  /\ Prefix(low, high) \in Seq(Symbol) /\ Len(Prefix(low, high)) = PrefixLength
         /\ SubSeq(Prefix(low, high), 1, PrefixLength) = Prefix(low, high)
         /\ \A e \in Nat : e < PrefixLength => Prefix(low, high)[e + 1] = BlockHeaderByte(e, low, high)
<1>1. Prefix(low, high) \in Seq(Byte) /\ Len(Prefix(low, high)) = 5
  BY DEF Prefix, Byte
<1>2. Prefix(low, high) \in Seq(Symbol)
  BY <1>1, Kinds DEF Files
<1>3. SubSeq(Prefix(low, high), 1, Len(Prefix(low, high))) = Prefix(low, high)
  BY <1>1, SubSeqFull
<1>4. ASSUME NEW e \in Nat, e < 5 PROVE Prefix(low, high)[e + 1] = BlockHeaderByte(e, low, high)
  <2>1. e = 0 \/ e = 1 \/ e = 2 \/ e = 3 \/ e = 4
    BY <1>4
  <2> QED BY <2>1 DEF Prefix, BlockHeaderByte
<1> QED BY <1>1, <1>2, <1>3, <1>4 DEF PrefixLength

\* What is owed is made of symbols.
LEMMA OwedType ==
  ASSUME NEW c, Sound(c), NEW rest \in Files
  PROVE  Owed(c, rest) \in Seq(Symbol)
<1>1. c.low \in Byte /\ c.high \in Byte /\ c.remaining \in Nat /\ c.emit_index \in Nat
  BY DEF Sound, Registers
<1>2. Expansion[rest] \in Seq(Symbol) /\ Expansion[With(c.low, rest)] \in Seq(Symbol)
      /\ Block(rest, c.remaining) \in Seq(Symbol)
  BY <1>1, BlockType, WithType, ExpansionIs, Kinds
<1>3. ASSUME NEW s \in Seq(Symbol), NEW n \in Nat, Len(s) = n
      PROVE  SubSeq(s, c.emit_index + 1, n) \in Seq(Symbol)
  <2>1. \A i \in c.emit_index + 1 .. n : s[i] \in Symbol
    <3>1. \A i \in c.emit_index + 1 .. n : i \in 1 .. Len(s)
      BY <1>1, <1>3
    <3> HIDE DEF Symbol
    <3> QED BY <3>1, ElementOfSeq
  <2>2. c.emit_index + 1 \in Int /\ n \in Int
    BY <1>1
  <2> HIDE DEF Symbol
  <2> QED BY <2>1, <2>2, SubSeqProperties
<1>4. SubSeq(Header, c.emit_index + 1, HeaderLength) \in Seq(Symbol)
      /\ SubSeq(Prefix(c.low, c.high), c.emit_index + 1, PrefixLength) \in Seq(Symbol)
  <2>1. HeaderLength \in Nat /\ PrefixLength \in Nat
    BY TapAssumption DEF PrefixLength
  <2> QED BY <1>1, <1>3, <2>1, Kinds, PrefixIs
<1>5. /\ SubSeq(Header, c.emit_index + 1, HeaderLength) \o Expansion[rest] \in Seq(Symbol)
      /\ SubSeq(Prefix(c.low, c.high), c.emit_index + 1, PrefixLength) \o Block(rest, c.remaining) \in Seq(Symbol)
  <2> HIDE DEF Symbol
  <2> QED BY <1>2, <1>4, ConcatProperties
<1> QED BY <1>2, <1>5 DEF Owed

\* A byte is taken: what was owed for it is owed now, or on its way.
LEMMA ByteTaken ==
  ASSUME Sound(converter), Waiting, NEW byte \in Byte, ConverterEdge(FALSE, TRUE, byte, FALSE),
         NEW rest \in Files
  PROVE  /\ Sound(converter')
         /\ Owed(converter, With(byte, rest)) = Onto(converter', Owed(converter', rest))
         /\ Good(converter, With(byte, rest)) <=> Good(converter', rest)
<1>0. /\ converter \in Registers /\ converter.low \in Byte /\ converter.high \in Byte
      /\ converter.remaining \in Nat /\ converter.emit_index \in Nat
  BY DEF Sound, Registers
<1>1. CASE converter.state = "LENGTH_LOW"
  <2>1. /\ converter' \in Registers /\ converter'.state = "LENGTH_HIGH" /\ converter'.low = byte
        /\ ~converter'.output_valid /\ converter'.fault = converter.fault
        /\ converter'.remaining = converter.remaining /\ converter'.emit_index = converter.emit_index
    BY ZenonT(60), <1>0, <1>1 DEF ConverterEdge, Checked, StateEdge, LengthLowEdge, Quiet, Registers, States,
          PauseInput
  <2>2. Sound(converter')
    BY <1>1, <2>1 DEF Sound
  <2>3. Owed(converter, With(byte, rest)) = Onto(converter', Owed(converter', rest))
    BY <1>1, <2>1 DEF Owed, Onto
  <2>4. Good(converter, With(byte, rest)) <=> Good(converter', rest)
    BY <1>1, <2>1 DEF Good
  <2> QED BY <2>2, <2>3, <2>4
<1>2. CASE converter.state = "LENGTH_HIGH"
  <2> DEFINE length == Length(converter.low, byte)
             file == With(converter.low, With(byte, rest))
  <2>0. length = 256 * byte + converter.low /\ length \in Nat /\ length < 256 * 256
    BY <1>0, SMT DEF Length, Byte
  <2>1. /\ Expansion[file] = IF length = 0 THEN Expansion[rest]
                             ELSE Prefix(converter.low, byte) \o Block(rest, length)
        /\ WellFormed[file] = (length > 0 /\ IsWhole(rest, length))
    BY <1>0, Opened
  <2>2. Owed(converter, With(byte, rest)) = Expansion[file]
        /\ (Good(converter, With(byte, rest)) <=> ~converter.fault /\ WellFormed[file])
    BY <1>2 DEF Owed, Good
  <2>5. byte \in Byte /\ length \in Nat
    BY <2>0
  <2> HIDE DEF file, length
  <2>3. CASE length = 0
    <3>1. /\ converter' \in Registers /\ converter'.state = "FINISH"
          /\ ~converter'.output_valid /\ converter'.fault
          /\ converter'.remaining = length /\ converter'.emit_index = 0
      <4>1. converter' = [Quiet EXCEPT !.high = byte, !.remaining = length, !.emit_index = 0,
                                       !.fault = TRUE, !.state = "FINISH"]
        BY <1>0, <1>2, <2>0, <2>3, ZenonT(60) DEF ConverterEdge, Checked, StateEdge,
              LengthHighEdge, Quiet, Registers, PauseInput
      <4> QED BY ONLY <1>0, <2>5, <4>1 DEF Quiet, Registers, States
    <3>2. Sound(converter')
      BY <2>3, <3>1 DEF Sound, PrefixLength
    <3>3. Owed(converter', rest) = Expansion[rest] /\ ~Good(converter', rest)
          /\ Onto(converter', Owed(converter', rest)) = Owed(converter', rest)
      BY <3>1 DEF Owed, Good, Onto
    <3>4. Good(converter, With(byte, rest)) <=> Good(converter', rest)
      <4>1. ~(length > 0)
        BY ONLY <2>3
      <4>2. ~WellFormed[file]
        BY ONLY <2>1, <4>1
      <4> QED BY ONLY <2>2, <3>3, <4>2
    <3> QED BY ONLY <2>1, <2>2, <2>3, <3>2, <3>3, <3>4
  <2>4. CASE length # 0
    <3>1. /\ converter' \in Registers /\ converter'.state = "BLOCK_HEADER"
          /\ ~converter'.output_valid /\ converter'.fault = converter.fault
          /\ converter'.low = converter.low /\ converter'.high = byte
          /\ converter'.remaining = length /\ converter'.emit_index = 0
      <4>1. converter' = [Quiet EXCEPT !.high = byte, !.remaining = length, !.emit_index = 0,
                                       !.state = "BLOCK_HEADER"]
        BY <1>0, <1>2, <2>0, <2>4, ZenonT(60) DEF ConverterEdge, Checked, StateEdge,
              LengthHighEdge, Quiet, Registers, PauseInput
      <4> QED BY ONLY <1>0, <2>5, <4>1 DEF Quiet, Registers, States
    <3>2. Sound(converter')
      BY <2>0, <2>4, <3>1 DEF Sound, PrefixLength, length
    <3>3. SubSeq(Prefix(converter.low, byte), 0 + 1, PrefixLength) = Prefix(converter.low, byte)
      <4>1. SubSeq(Prefix(converter.low, byte), 1, PrefixLength) = Prefix(converter.low, byte)
        BY <1>0, PrefixIs
      <4> QED BY <4>1
    <3>4. /\ Owed(converter', rest) = Prefix(converter.low, byte) \o Block(rest, length)
          /\ Good(converter', rest) <=> ~converter.fault /\ IsWhole(rest, length)
          /\ Onto(converter', Owed(converter', rest)) = Owed(converter', rest)
      BY <3>1, <3>3 DEF Owed, Good, Onto
    <3>5. Good(converter, With(byte, rest)) <=> Good(converter', rest)
      <4>1. length > 0
        BY ONLY <2>0, <2>4
      <4> QED BY ONLY <2>1, <2>2, <3>4, <4>1
    <3> QED BY ONLY <2>1, <2>2, <2>4, <3>2, <3>4, <3>5
  <2> QED BY <2>3, <2>4
<1>3. CASE converter.state = "DATA"
  <2> DEFINE n == converter.remaining - 1
  <2>0. n \in Nat /\ n + 1 = converter.remaining /\ n < 256 * 256 /\ n % 65536 = n
        /\ (converter.remaining = 1 <=> n = 0)
    BY <1>0, <1>3 DEF Sound
  <2>1. /\ Owed(converter, With(byte, rest)) = <<byte>> \o Block(rest, n)
        /\ Good(converter, With(byte, rest)) <=> ~converter.fault /\ IsWhole(rest, n)
    <3>1. /\ Block(With(byte, rest), n + 1) = <<byte>> \o Block(rest, n)
          /\ IsWhole(With(byte, rest), n + 1) = IsWhole(rest, n)
      <4> HIDE DEF n
      <4> QED BY <2>0, ByteOfBlock
    <3> QED BY <1>3, <2>0, <3>1 DEF Owed, Good
  <2>2. /\ converter' \in Registers
        /\ converter'.state = IF n = 0 THEN "LENGTH_LOW" ELSE "DATA"
        /\ converter'.output_valid /\ converter'.output_byte = byte /\ converter'.fault = converter.fault
        /\ converter'.remaining = n /\ converter'.emit_index = converter.emit_index
    <3>1. byte \in Symbol
      BY Kinds
    <3>2. /\ converter' = [DataEdge(TRUE, byte) EXCEPT !.fault = @ \/ FALSE]
          /\ converter.remaining = 1 =>
               DataEdge(TRUE, byte) = [Emit(byte) EXCEPT !.remaining = 0, !.state = "LENGTH_LOW"]
          /\ converter.remaining # 1 => DataEdge(TRUE, byte) = [Emit(byte) EXCEPT !.remaining = n]
      <4>0. ~PauseInput
        BY <1>3 DEF PauseInput
      <4>1. converter' = [DataEdge(TRUE, byte) EXCEPT !.fault = @ \/ FALSE]
        <5>1. converter' = [DataEdge(TRUE, byte) EXCEPT !.fault = @ \/ (TRUE /\ PauseInput)]
          BY <1>3 DEF ConverterEdge, Checked, StateEdge
        <5> QED BY <4>0, <5>1
      <4>2. (Emit(byte).remaining - 1) % 65536 = n
        BY <1>0, <2>0 DEF Emit, Quiet, Registers
      <4> QED BY <4>1, <4>2 DEF DataEdge
    <3> HIDE DEF n
    <3>4. CASE n = 0
      <4>1. converter' = [[Emit(byte) EXCEPT !.remaining = 0, !.state = "LENGTH_LOW"] EXCEPT !.fault = @ \/ FALSE]
        <5>1. converter.remaining = 1
          BY ONLY <2>0, <3>4
        <5>2. DataEdge(TRUE, byte) = [Emit(byte) EXCEPT !.remaining = 0, !.state = "LENGTH_LOW"]
          BY ONLY <3>2, <5>1
        <5> QED BY ONLY <3>2, <5>2
      <4> QED BY ONLY <1>0, <3>1, <3>4, <4>1 DEF Emit, Quiet, Registers, States
    <3>5. CASE n # 0
      <4>1. converter' = [[Emit(byte) EXCEPT !.remaining = n] EXCEPT !.fault = @ \/ FALSE] /\ n \in Nat
        <5>1. converter.remaining # 1 /\ n \in Nat
          BY ONLY <2>0, <3>5
        <5>2. DataEdge(TRUE, byte) = [Emit(byte) EXCEPT !.remaining = n]
          BY ONLY <3>2, <5>1
        <5> QED BY ONLY <3>2, <5>1, <5>2
      <4> QED BY ONLY <1>0, <1>3, <3>1, <3>5, <4>1 DEF Emit, Quiet, Registers, States
    <3> QED BY <3>4, <3>5
  <2> HIDE DEF n
  <2>3. Sound(converter')
    BY <1>3, <2>0, <2>2 DEF Sound
  <2>4. Owed(converter', rest) = Block(rest, n) /\ (Good(converter', rest) <=> ~converter.fault /\ IsWhole(rest, n))
    <3>1. n = 0 => Block(rest, n) = Expansion[rest] /\ IsWhole(rest, n) = WellFormed[rest]
      BY NoBlock
    <3> QED BY <2>2, <3>1 DEF Owed, Good
  <2> QED BY <2>1, <2>2, <2>3, <2>4 DEF Onto
<1> QED BY <1>1, <1>2, <1>3 DEF Waiting

\* An edge without a byte: what the converter emits, it owed.
LEMMA EdgeAlone ==
  ASSUME Sound(converter), ConverterEdge(FALSE, FALSE, 0, FALSE), NEW rest \in Files
  PROVE  /\ Sound(converter')
         /\ Owed(converter, rest) = Onto(converter', Owed(converter', rest))
         /\ Good(converter, rest) <=> Good(converter', rest)
         /\ converter.state \in {"FINISH", "LENGTH_LOW"} =>
              converter'.state = "LENGTH_LOW" /\ ~converter'.output_valid /\ converter'.fault = converter.fault
<1>0. /\ converter \in Registers /\ converter.low \in Byte /\ converter.high \in Byte
      /\ converter.remaining \in Nat /\ converter.emit_index \in Nat
  BY DEF Sound, Registers
<1> DEFINE e == converter.emit_index
<1>1. CASE converter.state = "HEADER"
  <2>1. /\ converter' \in Registers
        /\ converter'.state = IF e = HeaderLength - 1 THEN "LENGTH_LOW" ELSE "HEADER"
        /\ converter'.emit_index = IF e = HeaderLength - 1 THEN 0 ELSE e + 1
        /\ converter'.output_valid /\ converter'.output_byte = HeaderByte(e)
        /\ converter'.fault = converter.fault /\ converter'.remaining = converter.remaining
    <3>1. HeaderByte(e) \in Symbol
      BY <1>0, Kinds
    <3>2. converter' = IF e = HeaderLength - 1
                       THEN [Emit(HeaderByte(e)) EXCEPT !.emit_index = 0, !.state = "LENGTH_LOW", !.fault = @ \/ FALSE]
                       ELSE [Emit(HeaderByte(e)) EXCEPT !.emit_index = @ + 1, !.fault = @ \/ FALSE]
      BY <1>1 DEF ConverterEdge, Checked, StateEdge, HeaderEdge, Emit, Quiet
    <3>3. CASE e = HeaderLength - 1
      <4>1. converter' = [Emit(HeaderByte(e)) EXCEPT !.emit_index = 0, !.state = "LENGTH_LOW", !.fault = @ \/ FALSE]
        BY ONLY <3>2, <3>3
      <4> QED BY ONLY <1>0, <1>1, <3>1, <3>3, <4>1 DEF Emit, Quiet, Registers, States
    <3>4. CASE e # HeaderLength - 1
      <4>1. Emit(HeaderByte(e)).emit_index = e /\ e \in Nat /\ e + 1 \in Nat
        BY <1>0 DEF Emit, Quiet, Registers
      <4>2. converter' = [Emit(HeaderByte(e)) EXCEPT !.emit_index = e + 1, !.fault = @ \/ FALSE]
        BY ONLY <3>2, <3>4, <4>1
      <4> DEFINE next == e + 1
      <4>3. converter' = [Emit(HeaderByte(e)) EXCEPT !.emit_index = next, !.fault = @ \/ FALSE] /\ next \in Nat
        BY <4>1, <4>2
      <4> HIDE DEF next
      <4>4. /\ converter' \in Registers /\ converter'.state = converter.state /\ converter'.emit_index = next
            /\ converter'.output_valid /\ converter'.output_byte = HeaderByte(e)
            /\ converter'.fault = converter.fault /\ converter'.remaining = converter.remaining
            /\ converter'.low = converter.low /\ converter'.high = converter.high
        BY ONLY <1>0, <3>1, <4>3 DEF Emit, Quiet, Registers
      <4> QED BY <1>1, <3>4, <4>4 DEF next
    <3> QED BY <3>3, <3>4
  <2>2. e < HeaderLength /\ HeaderLength \in Nat
    BY <1>1, TapAssumption DEF Sound
  <2>3. Sound(converter')
    BY <1>0, <1>1, <2>1, <2>2 DEF Sound, PrefixLength
  <2>4. /\ SubSeq(Header, e + 1, HeaderLength) \o Expansion[rest]
             = <<HeaderByte(e)>> \o (SubSeq(Header, e + 1 + 1, HeaderLength) \o Expansion[rest])
        /\ e = HeaderLength - 1 =>
             SubSeq(Header, e + 1, HeaderLength) \o Expansion[rest] = <<HeaderByte(e)>> \o Expansion[rest]
    <3>1. Expansion[rest] \in Seq(Symbol)
      BY ExpansionIs, Kinds
    <3>2. Header \in Seq(Symbol) /\ Len(Header) = HeaderLength /\ Header[e + 1] = HeaderByte(e) /\ e \in Nat
      BY <1>0, <2>2, Kinds
    <3> HIDE DEF e, Header
    <3>3. SubSeq(Header, e + 1, HeaderLength) \o Expansion[rest] =
            <<Header[e + 1]>> \o (SubSeq(Header, e + 1 + 1, HeaderLength) \o Expansion[rest])
      BY ONLY <2>2, <3>1, <3>2, PeelOff, ZenonT(60)
    <3>4. e = HeaderLength - 1 =>
            SubSeq(Header, e + 1, HeaderLength) \o Expansion[rest] = <<Header[e + 1]>> \o Expansion[rest]
      BY ONLY <2>2, <3>1, <3>2, PeelOff
    <3> QED BY ONLY <3>2, <3>3, <3>4
  <2>5. Owed(converter, rest) = SubSeq(Header, e + 1, HeaderLength) \o Expansion[rest]
        /\ (Good(converter, rest) <=> ~converter.fault /\ WellFormed[rest])
        /\ (Good(converter', rest) <=> ~converter.fault /\ WellFormed[rest])
    BY <1>1, <2>1 DEF Owed, Good
  <2>6. Owed(converter', rest) = IF e = HeaderLength - 1 THEN Expansion[rest]
                                 ELSE SubSeq(Header, e + 1 + 1, HeaderLength) \o Expansion[rest]
    BY <2>1 DEF Owed
  <2> QED BY <1>1, <2>1, <2>3, <2>4, <2>5, <2>6 DEF Onto
<1>2. CASE converter.state = "BLOCK_HEADER"
  <2> DEFINE byte == BlockHeaderByte(e, converter.low, converter.high)
             prefix == Prefix(converter.low, converter.high)
  <2>0. e < PrefixLength /\ PrefixLength \in Nat
    BY <1>2 DEF Sound, PrefixLength
  <2>1. /\ converter' \in Registers
        /\ converter'.state = IF e = PrefixLength - 1 THEN "DATA" ELSE "BLOCK_HEADER"
        /\ converter'.emit_index = IF e = PrefixLength - 1 THEN 0 ELSE e + 1
        /\ converter'.output_valid /\ converter'.output_byte = byte
        /\ converter'.fault = converter.fault /\ converter'.remaining = converter.remaining
        /\ converter'.low = converter.low /\ converter'.high = converter.high
    <3>1. byte \in Symbol
      <4>1. byte \in Byte
        BY <1>0 DEF BlockHeaderByte, Byte
      <4> QED BY <4>1, Kinds
    <3> HIDE DEF byte
    <3>2. converter' = IF e = PrefixLength - 1
                       THEN [Emit(byte) EXCEPT !.emit_index = 0, !.state = "DATA", !.fault = @ \/ FALSE]
                       ELSE [Emit(byte) EXCEPT !.emit_index = @ + 1, !.fault = @ \/ FALSE]
      BY <1>2 DEF ConverterEdge, Checked, StateEdge, BlockHeaderEdge, byte, Emit, Quiet
    <3>3. CASE e = PrefixLength - 1
      <4>1. converter' = [Emit(byte) EXCEPT !.emit_index = 0, !.state = "DATA", !.fault = @ \/ FALSE]
        BY ONLY <3>2, <3>3
      <4> QED BY ONLY <1>0, <1>2, <3>1, <3>3, <4>1 DEF Emit, Quiet, Registers, States
    <3>4. CASE e # PrefixLength - 1
      <4>1. Emit(byte).emit_index = e /\ e \in Nat /\ e + 1 \in Nat
        BY <1>0 DEF Emit, Quiet, Registers
      <4>2. converter' = [Emit(byte) EXCEPT !.emit_index = e + 1, !.fault = @ \/ FALSE]
        BY ONLY <3>2, <3>4, <4>1
      <4> DEFINE next == e + 1
      <4>3. converter' = [Emit(byte) EXCEPT !.emit_index = next, !.fault = @ \/ FALSE] /\ next \in Nat
        BY <4>1, <4>2
      <4> HIDE DEF next
      <4>4. /\ converter' \in Registers /\ converter'.state = converter.state /\ converter'.emit_index = next
            /\ converter'.output_valid /\ converter'.output_byte = byte
            /\ converter'.fault = converter.fault /\ converter'.remaining = converter.remaining
            /\ converter'.low = converter.low /\ converter'.high = converter.high
        BY ONLY <1>0, <3>1, <4>3 DEF Emit, Quiet, Registers
      <4> QED BY <1>2, <3>4, <4>4 DEF next
    <3> QED BY <3>3, <3>4
  <2>3. Sound(converter')
    BY <1>0, <1>2, <2>0, <2>1 DEF Sound
  <2>4. /\ SubSeq(prefix, e + 1, PrefixLength) \o Block(rest, converter.remaining)
             = <<byte>> \o (SubSeq(prefix, e + 1 + 1, PrefixLength) \o Block(rest, converter.remaining))
        /\ e = PrefixLength - 1 =>
             SubSeq(prefix, e + 1, PrefixLength) \o Block(rest, converter.remaining)
               = <<byte>> \o Block(rest, converter.remaining)
    <3>1. Block(rest, converter.remaining) \in Seq(Symbol)
      BY <1>0, BlockType
    <3>2. prefix \in Seq(Symbol) /\ Len(prefix) = PrefixLength /\ prefix[e + 1] = byte /\ e \in Nat
      BY <1>0, <2>0, PrefixIs
    <3> HIDE DEF e, prefix, byte
    <3> QED BY <2>0, <3>1, <3>2, PeelOff, ZenonT(60)
  <2>5. /\ Owed(converter, rest) = SubSeq(prefix, e + 1, PrefixLength) \o Block(rest, converter.remaining)
        /\ Good(converter, rest) <=> ~converter.fault /\ IsWhole(rest, converter.remaining)
        /\ Good(converter', rest) <=> ~converter.fault /\ IsWhole(rest, converter.remaining)
    BY <1>2, <2>1 DEF Owed, Good
  <2>6. Owed(converter', rest) = IF e = PrefixLength - 1 THEN Block(rest, converter.remaining)
                                 ELSE SubSeq(prefix, e + 1 + 1, PrefixLength) \o Block(rest, converter.remaining)
    BY <2>1 DEF Owed
  <2> QED BY <1>2, <2>1, <2>3, <2>4, <2>5, <2>6 DEF Onto
<1>3. CASE converter.state \in {"LENGTH_LOW", "LENGTH_HIGH", "DATA"}
  <2>1. /\ converter' \in Registers /\ converter'.state = converter.state
        /\ ~converter'.output_valid /\ converter'.fault = converter.fault
        /\ converter'.low = converter.low /\ converter'.high = converter.high
        /\ converter'.remaining = converter.remaining /\ converter'.emit_index = converter.emit_index
    <3>1. converter' = Quiet
      <4>1. converter' = [Quiet EXCEPT !.fault = @ \/ FALSE]
        BY <1>3 DEF ConverterEdge, Checked, StateEdge, LengthLowEdge, LengthHighEdge, DataEdge
      <4> QED BY ONLY <1>0, <4>1 DEF Quiet, Registers
    <3> QED BY ONLY <1>0, <3>1 DEF Quiet, Registers
  <2> QED BY <1>3, <2>1 DEF Sound, Owed, Good, Onto
<1>4. CASE converter.state = "FINISH"
  <2>1. /\ converter' \in Registers /\ converter'.state = "LENGTH_LOW"
        /\ ~converter'.output_valid /\ converter'.fault = converter.fault
        /\ converter'.remaining = converter.remaining /\ converter'.emit_index = converter.emit_index
    BY <1>0, <1>4 DEF ConverterEdge, Checked, StateEdge, FinishEdge, Quiet, Registers, States,
          PauseInput
  <2> QED BY <1>4, <2>1 DEF Sound, Owed, Good, Onto
<1> QED BY <1>0, <1>1, <1>2, <1>3, <1>4 DEF Registers, States

\* What an edge puts on its way is sent after the rest.
LEMMA SentOn ==
  ASSUME Typed, Sound(converter'), output' = Sent, NEW s \in Seq(Symbol)
  PROVE  /\ Sent \in Seq(Symbol) /\ output' \in Seq(Symbol)
         /\ Sent' \o s = Sent \o Onto(converter', s)
         /\ ~converter'.output_valid => Sent' = Sent
<1>1. output \in Seq(Symbol) /\ converter.output_byte \in Symbol /\ converter'.output_byte \in Symbol
  BY DEF Typed, Sound, Registers
<1>2. Sent \in Seq(Symbol)
  <2> HIDE DEF Symbol
  <2> QED BY <1>1, AppendProperties DEF Sent
<1>3. Sent' = IF converter'.output_valid THEN Append(Sent, converter'.output_byte) ELSE Sent
  BY DEF Sent
<1> DEFINE t == Sent
           b == converter'.output_byte
<1>4. t \in Seq(Symbol) /\ b \in Symbol /\ <<b>> \in Seq(Symbol)
  BY <1>1, <1>2
<1>5. Append(t, b) \o s = t \o (<<b>> \o s)
  <2> HIDE DEF t, b, Symbol
  <2>1. Append(t, b) = t \o <<b>>
    BY <1>4, AppendIsConcat
  <2>2. t \o <<b>> \o s = t \o (<<b>> \o s)
    BY <1>4, ConcatAssociative
  <2> QED BY <2>1, <2>2
<1> QED BY <1>2, <1>3, <1>5 DEF Onto

\* A start owes the header and the whole file (nexttang_tap_to_tzx_stream.v:43).
LEMMA Started ==
  ASSUME Typed, Start
  PROVE  Typed' /\ Converts' /\ Judges'
<1>0. converter \in Registers
  BY DEF Typed, Sound
<1>1. /\ converter' \in Registers /\ converter'.state = "HEADER" /\ converter'.emit_index = 0
      /\ ~converter'.output_valid /\ ~converter'.fault /\ converter'.remaining = converter.remaining
  <2>1. converter' = [[Quiet EXCEPT !.state = "HEADER", !.emit_index = 0, !.fault = FALSE] EXCEPT !.fault = @ \/ FALSE]
    BY DEF Start, ConverterEdge, Checked
  <2> QED BY ONLY <1>0, <2>1 DEF Quiet, Registers, States
<1>2. input' = <<>> /\ output' = <<>> /\ ended' = [input |-> FALSE, output |-> FALSE]
  BY DEF Start
<1>3. Typed'
  <2>1. Sound(converter')
    BY <1>1, TapAssumption DEF Sound, Typed
  <2>2. <<>> \in Seq(TapBytes) /\ <<>> \in Seq(Symbol)
    BY EmptySeq
  <2> QED BY <1>2, <2>1, <2>2 DEF Typed
<1>4. ASSUME NEW rest \in Files PROVE <<>> \o rest = rest
  <2> HIDE DEF Byte
  <2> QED BY ConcatEmptySeq DEF Files
<1>5. Sent' = <<>> /\ ~ended'.input
  BY <1>1, <1>2 DEF Sent
<1>6. ASSUME NEW rest \in Files
      PROVE  /\ Header \o Expansion[input' \o rest] = Sent' \o Owed(converter', rest)
             /\ WellFormed[input' \o rest] <=> Good(converter', rest)
  <2>1. Owed(converter', rest) = SubSeq(Header, 0 + 1, HeaderLength) \o Expansion[rest]
        /\ (Good(converter', rest) <=> WellFormed[rest])
    BY <1>1 DEF Owed, Good
  <2>2. SubSeq(Header, 0 + 1, HeaderLength) = Header
    <3>1. SubSeq(Header, 1, Len(Header)) = Header /\ Len(Header) = HeaderLength
      BY Kinds, SubSeqFull
    <3> QED BY <3>1
  <2>3. Sent' \o Owed(converter', rest) = Owed(converter', rest)
    <3>1. Owed(converter', rest) \in Seq(Symbol)
      <4>1. Sound(converter')
        BY <1>3 DEF Typed
      <4> QED BY <4>1, OwedType
    <3> QED BY <1>5, <3>1, ConcatEmptySeq
  <2> QED BY <1>2, <1>4, <2>1, <2>2, <2>3
<1>7. Converts' /\ Judges'
  BY <1>5, <1>6 DEF Converts, Judges
<1> QED BY <1>3, <1>7

\* A byte given to a converter that waits keeps the invariant.
LEMMA ByteGiven ==
  ASSUME TapInv, GiveByte
  PROVE  TapInv'
<1>0. ~ended.input /\ Sound(converter) /\ Waiting /\ ended'.input = ended.input
      /\ ended' \in [input : BOOLEAN, output : BOOLEAN]
      /\ output' = Sent /\ input \in Seq(TapBytes) /\ <<>> \in Files
  <2>1. converter.output_done \in BOOLEAN
    BY DEF TapInv, Typed, Sound, Registers
  <2> QED BY <2>1, NothingLeft DEF TapInv, Typed, GiveByte, Collected, Sent
<1>1. PICK byte \in TapBytes : ConverterEdge(FALSE, TRUE, byte, FALSE) /\ input' = Append(input, byte)
  BY DEF GiveByte
<1>2. byte \in Byte
  BY TapAssumption DEF Byte
<1>3. ASSUME NEW rest \in Files
      PROVE  /\ Sound(converter')
             /\ Owed(converter, With(byte, rest)) = Onto(converter', Owed(converter', rest))
             /\ Good(converter, With(byte, rest)) <=> Good(converter', rest)
  BY <1>0, <1>1, <1>2, ByteTaken
<1>4. Sound(converter')
  BY <1>0, <1>3
<1>5. Typed'
  <2>1. input' \in Seq(TapBytes)
    BY <1>0, <1>1, AppendProperties
  <2>2. output' \in Seq(Symbol)
    BY <1>0, <1>4, SentOn, EmptySeq DEF TapInv
  <2> QED BY <1>0, <1>4, <2>1, <2>2 DEF Typed
<1>6. ASSUME NEW rest \in Files
      PROVE  /\ With(byte, rest) \in Files
             /\ input' \o rest = input \o With(byte, rest)
  <2>1. input \in Seq(Byte) /\ byte \in Byte /\ <<byte>> \in Seq(Byte) /\ rest \in Seq(Byte)
    <3>1. TapBytes \subseteq Byte
      BY TapAssumption DEF Byte
    <3>2. input \in Seq(Byte)
      BY <1>0, <3>1, SeqMonotonic
    <3> QED BY <1>2, <3>2 DEF Files
  <2> HIDE DEF Byte
  <2>2. input' = input \o <<byte>>
    BY <1>1, <2>1, AppendIsConcat
  <2>3. input \o <<byte>> \o rest = input \o (<<byte>> \o rest)
    BY <2>1, ConcatAssociative
  <2> QED BY <1>2, <2>2, <2>3, WithType DEF With
<1>7. ASSUME NEW rest \in Files
      PROVE  /\ Header \o Expansion[input' \o rest] = Sent' \o Owed(converter', rest)
             /\ WellFormed[input' \o rest] <=> Good(converter', rest)
  <2>1. /\ Header \o Expansion[input \o With(byte, rest)] = Sent \o Owed(converter, With(byte, rest))
        /\ WellFormed[input \o With(byte, rest)] <=> Good(converter, With(byte, rest))
    BY <1>0, <1>6 DEF TapInv, Converts, Judges
  <2>2. Sent' \o Owed(converter', rest) = Sent \o Onto(converter', Owed(converter', rest))
    <3>1. Owed(converter', rest) \in Seq(Symbol)
      BY <1>4, OwedType
    <3> QED BY <1>0, <1>4, <3>1, SentOn DEF TapInv
  <2> QED BY <1>3, <1>6, <2>1, <2>2
<1>8. Converts' /\ Judges'
  BY <1>0, <1>7 DEF Converts, Judges
<1> QED BY <1>5, <1>8 DEF TapInv

\* So does an edge without a byte.
LEMMA EdgePasses ==
  ASSUME TapInv, Wait
  PROVE  TapInv'
<1>0. /\ Sound(converter) /\ ConverterEdge(FALSE, FALSE, 0, FALSE) /\ ended'.input = ended.input
      /\ ended' \in [input : BOOLEAN, output : BOOLEAN]
      /\ output' = Sent /\ input' = input /\ input \in Seq(TapBytes) /\ <<>> \in Files
      /\ ended.input => converter.state \in {"FINISH", "LENGTH_LOW"}
  <2>1. converter.output_done \in BOOLEAN
    BY DEF TapInv, Typed, Sound, Registers
  <2> QED BY <2>1, NothingLeft DEF TapInv, Typed, Wait, Collected, Sent
<1>1. ASSUME NEW rest \in Files
      PROVE  /\ Sound(converter')
             /\ Owed(converter, rest) = Onto(converter', Owed(converter', rest))
             /\ Good(converter, rest) <=> Good(converter', rest)
             /\ converter.state \in {"FINISH", "LENGTH_LOW"} =>
                  converter'.state = "LENGTH_LOW" /\ ~converter'.output_valid /\ converter'.fault = converter.fault
  BY <1>0, EdgeAlone
<1>2. /\ Sound(converter')
      /\ ended.input =>
           converter'.state = "LENGTH_LOW" /\ ~converter'.output_valid /\ converter'.fault = converter.fault
  BY <1>0, <1>1
<1>3. Typed'
  <2>1. output' \in Seq(Symbol)
    BY <1>0, <1>2, SentOn, EmptySeq DEF TapInv
  <2> QED BY <1>0, <1>2, <2>1 DEF Typed
<1>4. CASE ended.input
  <2>1. Sent' = Sent
    BY <1>0, <1>2, <1>4, SentOn, EmptySeq DEF TapInv
  <2>2. Fresh => Fresh'
    BY <1>0, <1>2, <1>4 DEF Fresh, Sent
  <2> QED BY <1>0, <1>2, <1>3, <1>4, <2>1, <2>2 DEF TapInv, Converts, Judges
<1>5. CASE ~ended.input
  <2>1. ASSUME NEW rest \in Files
        PROVE  /\ Header \o Expansion[input' \o rest] = Sent' \o Owed(converter', rest)
               /\ WellFormed[input' \o rest] <=> Good(converter', rest)
    <3>1. /\ Header \o Expansion[input \o rest] = Sent \o Owed(converter, rest)
          /\ WellFormed[input \o rest] <=> Good(converter, rest)
      BY <1>5 DEF TapInv, Converts, Judges
    <3>2. Sent' \o Owed(converter', rest) = Sent \o Onto(converter', Owed(converter', rest))
      <4>1. Owed(converter', rest) \in Seq(Symbol)
        BY <1>2, OwedType
      <4> QED BY <1>0, <1>2, <4>1, SentOn DEF TapInv
    <3> QED BY <1>0, <1>1, <3>1, <3>2
  <2> QED BY <1>0, <1>3, <1>5, <2>1 DEF TapInv, Converts, Judges
<1> QED BY <1>4, <1>5

\* Nothing more is owed, and nothing more can be right, if nothing more comes.
LEMMA AtRest ==
  ASSUME Sound(converter), converter.state \notin {"HEADER", "BLOCK_HEADER"}
  PROVE  /\ Owed(converter, <<>>) = <<>>
         /\ Good(converter, <<>>) <=> ~converter.fault /\ converter.state \in {"LENGTH_LOW", "FINISH"}
<1>0. converter.low \in Byte /\ converter.remaining \in Nat /\ converter.state \in States
  BY DEF Sound, Registers
<1>1. CASE converter.state \in {"LENGTH_LOW", "FINISH"}
  BY <1>1, NothingLeft DEF Owed, Good
<1>2. CASE converter.state = "LENGTH_HIGH"
  <2>1. With(converter.low, <<>>) = <<converter.low>>
    <3>1. <<converter.low>> \in Seq(Byte)
      BY <1>0
    <3> HIDE DEF Byte
    <3> QED BY <3>1, ConcatEmptySeq DEF With
  <2> QED BY <1>0, <1>2, <2>1, NothingLeft DEF Owed, Good
<1>3. CASE converter.state = "DATA"
  <2>1. converter.remaining \in Nat \ {0}
    BY <1>0, <1>3 DEF Sound
  <2> QED BY <1>3, <2>1, NothingLeft DEF Owed, Good
<1> QED BY <1>0, <1>1, <1>2, <1>3 DEF States

\* A converter that waits has emitted what its input stands for.
LEMMA InputAlone ==
  ASSUME Typed, ~ended.input, Converts, Judges, converter.state \notin {"HEADER", "BLOCK_HEADER"}
  PROVE  /\ Sent = Header \o Expansion[input]
         /\ WellFormed[input] <=> ~converter.fault /\ converter.state \in {"LENGTH_LOW", "FINISH"}
<1>1. input \o <<>> = input
  BY ConcatEmptySeq DEF Typed
<1>2. Sent \o <<>> = Sent
  <2>1. Sent \in Seq(Symbol)
    <3>1. output \in Seq(Symbol) /\ converter.output_byte \in Symbol
      BY DEF Typed, Sound, Registers
    <3> HIDE DEF Symbol
    <3> QED BY <3>1, AppendProperties DEF Sent
  <2> QED BY <2>1, ConcatEmptySeq
<1>3. <<>> \in Files
  BY NothingLeft
<1>4. Header \o Expansion[input \o <<>>] = Sent \o Owed(converter, <<>>)
      /\ (WellFormed[input \o <<>>] <=> Good(converter, <<>>))
  BY <1>3 DEF Converts, Judges
<1> QED BY <1>1, <1>2, <1>4, AtRest DEF Typed

\* The end of the file keeps the invariant: the fault is the verdict.
LEMMA EndGiven ==
  ASSUME TapInv, GiveEnd
  PROVE  TapInv'
<1>0. /\ Sound(converter) /\ ~ended.input /\ Waiting /\ ended'.input
      /\ ended' \in [input : BOOLEAN, output : BOOLEAN]
      /\ output' = Sent /\ input' = input /\ input \in Seq(TapBytes)
  <2>1. converter.output_done \in BOOLEAN
    BY DEF TapInv, Typed, Sound, Registers
  <2> QED BY <2>1 DEF TapInv, Typed, GiveEnd, Sent
<1>1. converter \in Registers
  BY <1>0 DEF Sound
<1>2. /\ converter' \in Registers /\ converter'.state = "FINISH" /\ ~converter'.output_valid
      /\ converter'.fault <=> converter.fault \/ converter.state # "LENGTH_LOW"
      /\ converter'.remaining = converter.remaining /\ converter'.emit_index = converter.emit_index
  <2>1. CASE converter.state = "LENGTH_LOW"
    <3>1. converter' = [[Quiet EXCEPT !.state = "FINISH"] EXCEPT !.fault = @ \/ FALSE]
      BY <2>1 DEF GiveEnd, ConverterEdge, Checked, StateEdge, LengthLowEdge
    <3> QED BY ONLY <1>1, <2>1, <3>1 DEF Quiet, Registers, States
  <2>2. CASE converter.state \in {"LENGTH_HIGH", "DATA"}
    <3>1. converter' = [Quiet EXCEPT !.fault = TRUE, !.state = "FINISH"]
      <4>1. StateEdge(FALSE, 0, TRUE) = Quiet
        <5>1. CASE converter.state = "LENGTH_HIGH"
          BY <5>1 DEF StateEdge, LengthHighEdge
        <5>2. CASE converter.state = "DATA"
          BY <5>2 DEF StateEdge, DataEdge
        <5> QED BY <2>2, <5>1, <5>2
      <4>2. converter.state \notin {"LENGTH_LOW", "FINISH"}
        BY <2>2
      <4> QED BY <4>1, <4>2 DEF GiveEnd, ConverterEdge, Checked
    <3> QED BY ONLY <1>1, <2>2, <3>1 DEF Quiet, Registers, States
  <2> QED BY <1>0, <2>1, <2>2 DEF Waiting
<1>3. Sound(converter')
  BY <1>0, <1>2 DEF Sound, Waiting
<1>4. Typed'
  <2>1. output' \in Seq(Symbol)
    BY <1>0, <1>3, SentOn, EmptySeq DEF TapInv
  <2> QED BY <1>0, <1>2, <1>3, <2>1 DEF Typed
<1>5. /\ Sent = Header \o Expansion[input]
      /\ WellFormed[input] <=> ~converter.fault /\ converter.state \in {"LENGTH_LOW", "FINISH"}
  BY <1>0, InputAlone DEF TapInv, Waiting
<1>6. Sent' = Sent
  BY <1>0, <1>2, <1>3, SentOn, EmptySeq DEF TapInv
<1>7. converter'.fault <=> ~WellFormed[input']
  BY <1>0, <1>2, <1>5 DEF Waiting
<1> QED BY <1>0, <1>4, <1>5, <1>6, <1>7 DEF TapInv, Converts, Judges

\* The invariant, for every header, every set of bytes and every length of file
\* (nexttang_tap_to_tzx_stream.v:38-68).
THEOREM TapInvariant == Spec => []TapInv
<1>1. Init => TapInv
  <2> SUFFICES ASSUME Init PROVE TapInv
    OBVIOUS
  <2>1. converter = Blank /\ input = <<>> /\ output = <<>> /\ ended = [input |-> TRUE, output |-> TRUE]
    BY DEF Init
  <2>2. 0 \in Byte /\ 0 \in Symbol
    <3>1. 0 \in Byte
      BY DEF Byte
    <3> QED BY <3>1, Kinds
  <2>3. Sound(converter)
    BY <2>1, <2>2 DEF Sound, Blank, Registers, States, PrefixLength
  <2>4. Typed
    BY <2>1, <2>3, EmptySeq DEF Typed, Blank
  <2>5. Converts /\ Judges
    BY <2>1, NothingLeft DEF Converts, Judges, Fresh, Blank
  <2> QED BY <2>4, <2>5 DEF TapInv
<1>2. TapInv /\ [Next]_vars => TapInv'
  <2> SUFFICES ASSUME TapInv, [Next]_vars PROVE TapInv'
    OBVIOUS
  <2>1. CASE Start
    BY <2>1, Started DEF TapInv
  <2>2. CASE GiveByte
    BY <2>2, ByteGiven
  <2>3. CASE GiveEnd
    BY <2>3, EndGiven
  <2>4. CASE Wait
    BY <2>4, EdgePasses
  <2>5. CASE UNCHANGED vars
    BY <2>5 DEF vars, TapInv, Typed, Converts, Judges, Fresh, Sent
  <2> QED BY <2>1, <2>2, <2>3, <2>4, <2>5 DEF Next
<1> QED BY <1>1, <1>2, PTL DEF Spec

\* A converter that is not emitting has emitted the expansion of the bytes it
\* was given, wherever the file is cut (nexttang_tap_to_tzx_stream.v:44-64).
THEOREM EmitsExpansion == Spec => []OutputIsExpansion
<1>1. TapInv => OutputIsExpansion
  <2> SUFFICES ASSUME TapInv, ~Emitting, ~(ended.input /\ input = <<>> /\ output = <<>>)
               PROVE  output = Header \o Expansion[input]
    BY DEF OutputIsExpansion
  <2>1. Sent = output /\ converter.state \notin {"HEADER", "BLOCK_HEADER"}
    BY DEF Emitting, PauseInput, Sent
  <2>2. CASE ended.input
    BY <2>1, <2>2 DEF TapInv, Converts, Fresh
  <2>3. CASE ~ended.input
    BY <2>1, <2>3, InputAlone DEF TapInv
  <2> QED BY <2>2, <2>3
<1> QED BY <1>1, TapInvariant, PTL

\* A file that has ended is reported good exactly when it is a sequence of whole,
\* non-empty blocks (nexttang_tap_to_tzx_stream.v:51-55, 65-66).
THEOREM FaultIsVerdict == Spec => []FaultMeansMalformed
<1>1. TapInv => FaultMeansMalformed
  BY DEF TapInv, Judges, FaultMeansMalformed
<1> QED BY <1>1, TapInvariant, PTL

-----------------------------------------------------------------------------
(***************************************************************************)
(* The dual-clock FIFO.  The ring arithmetic is kept in four lemmas about  *)
(* pointers; the steps of the FIFO then only add and compare distances.    *)
(***************************************************************************)
USE FifoAssumption

\* A pointer that moves by one stays a pointer.
LEMMA SuccType == ASSUME NEW p \in Pointers PROVE Succ(p) \in Pointers
BY DEF Pointers, Succ

\* A distance is a number below 2 * Depth, and zero only from a pointer to itself.
LEMMA AheadType ==
  ASSUME NEW p \in Pointers, NEW q \in Pointers
  PROVE  /\ Ahead(p, q) \in 0 .. 2 * Depth - 1
         /\ Ahead(p, q) = 0 <=> p = q
BY DEF Pointers, Ahead

\* Moving the far pointer by one adds one, until the ring is used up.
LEMMA AheadSucc ==
  ASSUME NEW p \in Pointers, NEW q \in Pointers, Ahead(p, q) < 2 * Depth - 1
  PROVE  Ahead(Succ(p), q) = Ahead(p, q) + 1
BY DEF Pointers, Ahead, Succ

\* Moving the origin forward, to a pointer not past p, shortens the distance.
LEMMA AheadFrom ==
  ASSUME NEW p \in Pointers, NEW q \in Pointers, NEW r \in Pointers,
         Ahead(r, q) <= Ahead(p, q)
  PROVE  Ahead(p, r) = Ahead(p, q) - Ahead(r, q)
BY DEF Pointers, Ahead

\* An address of the ring is an address of the memory.
LEMMA SlotType == ASSUME NEW p \in Pointers PROVE Slot(p) \in 0 .. Depth - 1
BY DEF Pointers, Slot
-----------------------------------------------------------------------------
\* The registers and the memory keep their types (nexttang_async_byte_fifo.v:22-24).
THEOREM TypeCorrect == FifoSpec => []FifoTypeOK
<1>1. FifoInit => FifoTypeOK
  BY DEF FifoInit, FifoTypeOK, WriterReset, ReaderReset, WriterRegisters, ReaderRegisters, Pointers
<1>2. FifoTypeOK /\ [FifoNext]_fifoVars => FifoTypeOK'
  <2> SUFFICES ASSUME FifoTypeOK, [FifoNext]_fifoVars PROVE FifoTypeOK'
    OBVIOUS
  <2>1. CASE WriterStep
    <3> PICK enable \in BOOLEAN, data \in Bytes : WriterClock(enable, data)
      BY <2>1 DEF WriterStep
    <3>1. WriterSampled \in WriterRegisters
      BY DEF WriterSampled, WriterRegisters, ReaderRegisters, FifoTypeOK
    <3>2. [WriterSampled EXCEPT !.pointer = Succ(@)] \in WriterRegisters
      BY <3>1, SuccType DEF WriterRegisters
    <3>3. [memory EXCEPT ![Slot(writer.pointer)] = data] \in [0 .. Depth - 1 -> Bytes]
      BY DEF FifoTypeOK
    <3> QED BY <3>1, <3>2, <3>3 DEF WriteEdge, WriterClock, FifoTypeOK
  <2>2. CASE ReaderStep
    <3> PICK pop \in BOOLEAN : ReaderClock(pop)
      BY <2>2 DEF ReaderStep
    <3>1. ReaderSampled \in ReaderRegisters
      BY DEF ReaderSampled, WriterRegisters, ReaderRegisters, FifoTypeOK
    <3>2. [ReaderSampled EXCEPT !.valid = FALSE] \in ReaderRegisters
      BY <3>1 DEF ReaderRegisters
    <3>3. memory[Slot(reader.pointer)] \in Bytes
      BY SlotType DEF FifoTypeOK, ReaderRegisters
    <3>4. Shown \in ReaderRegisters
      BY <3>1, <3>3, SuccType DEF Shown, ReaderRegisters
    <3> QED BY <3>1, <3>2, <3>4 DEF ReadEdge, ReaderClock, FifoTypeOK
  <2>3. CASE CoordinatedReset
    BY <2>3 DEF CoordinatedReset, FifoTypeOK, WriterReset, ReaderReset, WriterRegisters,
                ReaderRegisters, Pointers
  <2>4. CASE UNCHANGED fifoVars
    BY <2>4 DEF fifoVars, FifoTypeOK
  <2> QED BY <2>1, <2>2, <2>3, <2>4 DEF FifoNext
<1> QED BY <1>1, <1>2, PTL DEF FifoSpec, FifoStart
-----------------------------------------------------------------------------
(***************************************************************************)
(* The pointers and their samples keep their order around the ring, and    *)
(* the unread bytes never fill it: nothing unread is overwritten           *)
(* (nexttang_async_byte_fifo.v:27-28, 43-45, 52-56).                       *)
(***************************************************************************)
THEOREM RingInvariant == FifoSpec => []RingInv
<1>1. FifoInit => RingInv
  BY DEF FifoInit, RingInv, Behind, Ahead, WriterReset, ReaderReset
<1>2. FifoTypeOK /\ RingInv /\ [FifoNext]_fifoVars => RingInv'
  <2> SUFFICES ASSUME FifoTypeOK, RingInv, [FifoNext]_fifoVars PROVE RingInv'
    OBVIOUS
  <2> DEFINE r2 == writer.read_2
             r1 == writer.read_1
             rp == reader.pointer
             w2 == reader.write_2
             w1 == reader.write_1
             wp == writer.pointer
  <2>0. {r2, r1, rp, w2, w1, wp} \subseteq Pointers
    BY DEF FifoTypeOK, WriterRegisters, ReaderRegisters
  <2>i. /\ Ahead(r1, r2) <= Ahead(rp, r2)
        /\ Ahead(rp, r2) <= Ahead(w2, r2)
        /\ Ahead(w2, r2) <= Ahead(w1, r2)
        /\ Ahead(w1, r2) <= Ahead(wp, r2)
        /\ Ahead(wp, r2) <= Depth - 1
    BY DEF RingInv, Behind
  <2>n. /\ Ahead(r1, r2) \in Nat /\ Ahead(rp, r2) \in Nat /\ Ahead(w2, r2) \in Nat
        /\ Ahead(w1, r2) \in Nat /\ Ahead(wp, r2) \in Nat
    BY <2>0, AheadType
  \* The same order, seen from the newer of the two samples of the read pointer.
  <2>s. /\ Ahead(rp, r1) = Ahead(rp, r2) - Ahead(r1, r2)
        /\ Ahead(w2, r1) = Ahead(w2, r2) - Ahead(r1, r2)
        /\ Ahead(w1, r1) = Ahead(w1, r2) - Ahead(r1, r2)
        /\ Ahead(wp, r1) = Ahead(wp, r2) - Ahead(r1, r2)
    <3>1. /\ Ahead(r1, r2) <= Ahead(w2, r2) /\ Ahead(r1, r2) <= Ahead(w1, r2)
          /\ Ahead(r1, r2) <= Ahead(wp, r2)
      BY <2>i, <2>n
    <3> QED BY <2>0, <2>i, <3>1, AheadFrom
  <2>1. CASE WriterStep
    <3> PICK enable \in BOOLEAN, data \in Bytes : WriterClock(enable, data)
      BY <2>1 DEF WriterStep
    <3>1. /\ reader' = reader
          /\ writer'.read_1 = rp /\ writer'.read_2 = r1
          /\ \/ writer'.pointer = wp
             \/ ~Full /\ writer'.pointer = Succ(wp)
      BY DEF WriteEdge, WriterSampled, WriterClock, FifoTypeOK, WriterRegisters
    <3>2. CASE writer'.pointer = wp
      BY <2>i, <2>n, <2>s, <3>1, <3>2 DEF RingInv, Behind
    <3>3. CASE ~Full /\ writer'.pointer = Succ(wp)
      <4>1. Ahead(wp, r2) < Depth - 1
        <5>1. Ahead(Succ(wp), r2) = Ahead(wp, r2) + 1
          BY <2>0, <2>i, <2>n, AheadSucc
        <5> QED BY <2>i, <2>n, <3>3, <5>1 DEF Full
      <4>2. Ahead(Succ(wp), r1) = Ahead(wp, r1) + 1
        BY <2>0, <2>n, <2>s, <4>1, AheadSucc
      <4> QED BY <2>i, <2>n, <2>s, <3>1, <3>3, <4>1, <4>2 DEF RingInv, Behind
    <3> QED BY <3>1, <3>2, <3>3
  <2>2. CASE ReaderStep
    <3> PICK pop \in BOOLEAN : ReaderClock(pop)
      BY <2>2 DEF ReaderStep
    <3>1. /\ writer' = writer
          /\ reader'.write_1 = wp /\ reader'.write_2 = w1
          /\ \/ reader'.pointer = rp
             \/ ~Empty /\ reader'.pointer = Succ(rp)
      BY DEF ReadEdge, ReaderSampled, Shown, ReaderClock, FifoTypeOK, ReaderRegisters
    <3>2. CASE reader'.pointer = rp
      BY <2>i, <2>n, <3>1, <3>2 DEF RingInv, Behind
    <3>3. CASE ~Empty /\ reader'.pointer = Succ(rp)
      <4>1. Ahead(rp, r2) # Ahead(w2, r2)
        BY <2>0, <3>3 DEF Empty, Ahead, Pointers
      <4>2. Ahead(Succ(rp), r2) = Ahead(rp, r2) + 1
        BY <2>0, <2>i, <2>n, AheadSucc
      <4> QED BY <2>i, <2>n, <3>1, <3>3, <4>1, <4>2 DEF RingInv, Behind
    <3> QED BY <3>1, <3>2, <3>3
  <2>3. CASE CoordinatedReset
    BY <2>3 DEF CoordinatedReset, RingInv, Behind, Ahead, WriterReset, ReaderReset
  <2>4. CASE UNCHANGED fifoVars
    BY <2>4 DEF fifoVars, RingInv, Behind
  <2> QED BY <2>1, <2>2, <2>3, <2>4 DEF FifoNext
<1> QED BY <1>1, <1>2, TypeCorrect, PTL DEF FifoSpec, FifoStart

(***************************************************************************)
(* The level and the full flag that back-pressure is computed from never   *)
(* under-report the unread bytes (nexttang_async_byte_fifo.v:28, 37).      *)
(***************************************************************************)
THEOREM LevelNeverUnderReports == FifoSpec => []LevelIsSafe
<1>1. FifoTypeOK /\ RingInv => LevelIsSafe
  <2> SUFFICES ASSUME FifoTypeOK, RingInv PROVE LevelIsSafe
    OBVIOUS
  <2> DEFINE r2 == writer.read_2
             rp == reader.pointer
             wp == writer.pointer
  <2>1. {r2, rp, wp} \subseteq Pointers
    BY DEF FifoTypeOK, WriterRegisters, ReaderRegisters
  <2>2. Ahead(rp, r2) <= Ahead(wp, r2) /\ Ahead(wp, r2) <= Depth - 1
    <3>1. /\ Ahead(reader.write_2, r2) \in Nat /\ Ahead(reader.write_1, r2) \in Nat
          /\ Ahead(rp, r2) \in Nat /\ Ahead(wp, r2) \in Nat
      BY AheadType DEF FifoTypeOK, WriterRegisters, ReaderRegisters
    <3> QED BY <3>1 DEF RingInv, Behind
  <2>3. Ahead(wp, rp) = Ahead(wp, r2) - Ahead(rp, r2)
    BY <2>1, <2>2, AheadFrom
  <2>4. Ahead(rp, r2) \in Nat /\ Ahead(wp, r2) \in Nat
    BY <2>1, AheadType
  <2>5. Unread <= Level
    BY <2>2, <2>3, <2>4 DEF Unread, Level
  <2>6. Unread = Depth - 1 => Full
    <3>1. Ahead(Succ(wp), r2) = Ahead(wp, r2) + 1
      BY <2>1, <2>2, <2>4, AheadSucc
    <3> QED BY <2>2, <2>3, <2>4, <3>1 DEF Unread, Full
  <2> QED BY <2>5, <2>6 DEF LevelIsSafe
<1> QED BY <1>1, TypeCorrect, RingInvariant, PTL
-----------------------------------------------------------------------------
(***************************************************************************)
(* The queue: the unread bytes, oldest first, and what is shown.           *)
(***************************************************************************)
Cell(p, i) == Slot((p + i - 1) % (2 * Depth))
Contents == [i \in 1 .. Unread |-> memory[Cell(reader.pointer, i)]]
Display == IF reader.valid THEN <<reader.data>> ELSE <<>>

LEMMA Constants == Depth \in Nat /\ Depth > 1
OBVIOUS

\* A pointer that runs past the end of the ring starts again.
LEMMA Wrapped ==
  ASSUME NEW n \in 0 .. 4 * Depth - 1
  PROVE  n % (2 * Depth) = IF n < 2 * Depth THEN n ELSE n - 2 * Depth
<1> DEFINE m == 2 * Depth
           k == n \div m
           r == n % m
<1>1. m \in Nat /\ m > 0 /\ n < 2 * m
  BY Constants
<1> HIDE DEF m
<1>2. k \in Int /\ r \in 0 .. m - 1 /\ n = m * k + r
  BY <1>1
<1> HIDE DEF k, r
<1>3. k = 0 \/ k = 1
  <2>1. k <= -1 => m * k <= -m
    BY <1>1, <1>2
  <2>2. k >= 2 => m * k >= 2 * m
    BY <1>1, <1>2
  <2> QED BY <1>1, <1>2, <2>1, <2>2
<1>4. r = IF n < m THEN n ELSE n - m
  BY <1>1, <1>2, <1>3
<1> QED BY <1>4 DEF r, m

\* The cell at a distance: the next one is one further from the next pointer; all
\* the unread ones differ from the one that is written next.
LEMMA Cells ==
  ASSUME NEW p \in Pointers, NEW i \in 1 .. 2 * Depth
  PROVE  /\ Cell(p, i) \in 0 .. Depth - 1
         /\ Cell(p, 1) = Slot(p)
         /\ i < 2 * Depth => Cell(Succ(p), i) = Cell(p, i + 1)
         /\ \A q \in Pointers :
              /\ i = Ahead(q, p) + 1 => Cell(p, i) = Slot(q)
              /\ i <= Ahead(q, p) /\ Ahead(q, p) <= Depth - 1 => Cell(p, i) # Slot(q)
<1>1. \A n \in 0 .. 4 * Depth - 1 : n % (2 * Depth) = IF n < 2 * Depth THEN n ELSE n - 2 * Depth
  BY Wrapped
<1>2. \A t \in Pointers, j \in 1 .. 2 * Depth :
        Cell(t, j) = Slot(IF t + j - 1 < 2 * Depth THEN t + j - 1 ELSE t + j - 1 - 2 * Depth)
  BY <1>1, Constants DEF Cell, Pointers
<1>3. Cell(p, i) \in 0 .. Depth - 1 /\ Cell(p, 1) = Slot(p)
  BY <1>2, Constants DEF Slot, Pointers
<1>4. i < 2 * Depth => Cell(Succ(p), i) = Cell(p, i + 1)
  BY <1>2, SuccType, Constants DEF Slot, Pointers, Succ
<1>5. ASSUME NEW q \in Pointers, i = Ahead(q, p) + 1 PROVE Cell(p, i) = Slot(q)
  BY <1>2, <1>5, Constants DEF Slot, Pointers, Ahead
<1>6. ASSUME NEW q \in Pointers, i <= Ahead(q, p), Ahead(q, p) <= Depth - 1 PROVE Cell(p, i) # Slot(q)
  BY <1>2, <1>6, Constants DEF Slot, Pointers, Ahead
<1> QED BY <1>3, <1>4, <1>5, <1>6

\* What the ring invariant says of the two pointers and of the newest sample.
LEMMA Distances ==
  ASSUME FifoTypeOK, RingInv
  PROVE  /\ writer.pointer \in Pointers /\ reader.pointer \in Pointers
         /\ Unread \in 0 .. Depth - 1 /\ Level \in Nat /\ Unread <= Level
         /\ ~Full => Level < Depth - 1
         /\ ~Empty => Unread > 0
<1> DEFINE r2 == writer.read_2
           rp == reader.pointer
           w2 == reader.write_2
           wp == writer.pointer
<1>1. {r2, rp, w2, wp} \subseteq Pointers
  BY DEF FifoTypeOK, WriterRegisters, ReaderRegisters
<1>2. /\ Ahead(reader.write_1, r2) \in Nat /\ Ahead(rp, r2) \in Nat /\ Ahead(w2, r2) \in Nat
      /\ Ahead(wp, r2) \in Nat
  BY AheadType DEF FifoTypeOK, WriterRegisters, ReaderRegisters
<1>3. Ahead(rp, r2) <= Ahead(w2, r2) /\ Ahead(w2, r2) <= Ahead(wp, r2) /\ Ahead(wp, r2) <= Depth - 1
  BY <1>2 DEF RingInv, Behind
<1>4. Ahead(wp, rp) = Ahead(wp, r2) - Ahead(rp, r2)
  BY <1>1, <1>2, <1>3, AheadFrom
<1>5. ~Full => Level < Depth - 1
  <2>1. Ahead(Succ(wp), r2) = Ahead(wp, r2) + 1
    BY <1>1, <1>2, <1>3, AheadSucc, Constants
  <2> QED BY <1>2, <1>3, <2>1, Constants DEF Full, Level
<1>6. ~Empty => Ahead(rp, r2) # Ahead(w2, r2)
  BY <1>1 DEF Empty, Ahead, Pointers
<1> QED BY <1>1, <1>2, <1>3, <1>4, <1>5, <1>6, Constants DEF Unread, Level

LEMMA ContentsType ==
  ASSUME FifoTypeOK, RingInv
  PROVE  Contents \in Seq(Bytes) /\ Len(Contents) = Unread /\ DOMAIN Contents = 1 .. Unread
<1>1. \A i \in 1 .. Unread : memory[Cell(reader.pointer, i)] \in Bytes
  BY Distances, Cells, Constants DEF FifoTypeOK
<1> QED BY <1>1, Distances, Constants DEF Contents

\* A byte that is written is the last of the queue, and nothing else changes.
LEMMA Written ==
  ASSUME FifoTypeOK, RingInv, NEW data \in Bytes, ~Full,
         reader' = reader, writer'.pointer = Succ(writer.pointer),
         memory' = [memory EXCEPT ![Slot(writer.pointer)] = data]
  PROVE  Len(Contents) < Depth - 1 /\ Contents' = Append(Contents, data)
<1> DEFINE rp == reader.pointer
           wp == writer.pointer
<1>1. rp \in Pointers /\ wp \in Pointers /\ Unread \in 0 .. Depth - 1 /\ Unread < Depth - 1
  BY Distances, Constants
<1>2. Unread' = Unread + 1
  BY <1>1, AheadSucc, Constants DEF Unread
<1>3. ASSUME NEW i \in 1 .. Unread PROVE memory'[Cell(rp, i)] = memory[Cell(rp, i)]
  <2>1. Cell(rp, i) # Slot(wp) /\ Cell(rp, i) \in 0 .. Depth - 1
    BY <1>1, Cells, Constants DEF Unread
  <2> QED BY <2>1 DEF FifoTypeOK
<1>4. memory'[Cell(rp, Unread + 1)] = data
  <2>1. Cell(rp, Unread + 1) = Slot(wp)
    BY <1>1, Cells, Constants DEF Unread
  <2> QED BY <1>1, <2>1, SlotType DEF FifoTypeOK
<1>5. Contents' = [i \in 1 .. Unread + 1 |-> memory'[Cell(rp, i)]]
  BY <1>2 DEF Contents, Cell
<1>6. \A i \in 1 .. Unread + 1 : memory'[Cell(rp, i)] = IF i = Unread + 1 THEN data ELSE Contents[i]
  BY <1>1, <1>3, <1>4 DEF Contents
<1>7. Contents \in Seq(Bytes) /\ Len(Contents) = Unread
  BY ContentsType
<1>8. /\ Append(Contents, data) \in Seq(Bytes) /\ Len(Append(Contents, data)) = Unread + 1
      /\ \A i \in 1 .. Unread + 1 :
           Append(Contents, data)[i] = IF i = Unread + 1 THEN data ELSE Contents[i]
  <2> HIDE DEF Contents
  <2> QED BY <1>1, <1>7, AppendProperties
<1>9. Contents' \in Seq(Bytes) /\ Len(Contents') = Unread + 1
  <2> DEFINE len == Unread + 1
  <2>1. len \in Nat /\ \A i \in 1 .. len : memory'[Cell(rp, i)] \in Bytes
    BY <1>1, <1>6, <1>7, ElementOfSeq
  <2>2. Contents' = [i \in 1 .. len |-> memory'[Cell(rp, i)]]
    BY <1>5
  <2> HIDE DEF len, Contents
  <2>3. Contents' \in Seq(Bytes) /\ Len(Contents') = len
    BY <2>1, <2>2
  <2> QED BY <2>3 DEF len
<1>10. \A i \in 1 .. Unread + 1 : Contents'[i] = Append(Contents, data)[i]
  BY <1>5, <1>6, <1>8
<1>11. Contents' = Append(Contents, data)
  BY <1>8, <1>9, <1>10, SeqEqual
<1> QED BY <1>1, <1>7, <1>11

\* The byte that is shown is the first of the queue, and the others move up.
LEMMA ShownFirst ==
  ASSUME FifoTypeOK, RingInv, ~Empty,
         writer' = writer, memory' = memory, reader'.pointer = Succ(reader.pointer)
  PROVE  /\ Contents # <<>> /\ Head(Contents) = memory[Slot(reader.pointer)]
         /\ Contents' = Tail(Contents)
<1> DEFINE rp == reader.pointer
           wp == writer.pointer
<1>1. rp \in Pointers /\ wp \in Pointers /\ Unread \in 1 .. Depth - 1
  BY Distances, Constants
<1>2. Unread' = Unread - 1
  <2>1. Ahead(Succ(rp), rp) = 1
    BY <1>1, Constants DEF Ahead, Succ, Pointers
  <2>2. Ahead(wp, Succ(rp)) = Ahead(wp, rp) - 1
    BY <1>1, <2>1, AheadFrom, SuccType, Constants DEF Unread
  <2> QED BY <2>2 DEF Unread
<1>3. Contents # <<>> /\ Head(Contents) = Contents[1]
  BY <1>1, ContentsType
<1>4. Contents[1] = memory[Slot(rp)]
  BY <1>1, Cells, Constants DEF Contents
<1>5. Contents' = [i \in 1 .. Unread - 1 |-> memory[Cell(Succ(rp), i)]]
  BY <1>2 DEF Contents, Cell
<1>6. ASSUME NEW i \in 1 .. Unread - 1 PROVE memory[Cell(Succ(rp), i)] = Contents[i + 1]
  <2>1. i \in 1 .. 2 * Depth /\ i < 2 * Depth /\ i + 1 \in 1 .. Unread
    BY <1>1, Constants
  <2>2. Cell(Succ(rp), i) = Cell(rp, i + 1)
    BY <1>1, <2>1, Cells
  <2> QED BY <2>1, <2>2 DEF Contents
<1>7. Contents \in Seq(Bytes) /\ Len(Contents) = Unread
  BY ContentsType
<1>8. /\ Tail(Contents) \in Seq(Bytes) /\ Len(Tail(Contents)) = Unread - 1
      /\ \A i \in 1 .. Unread - 1 : Tail(Contents)[i] = Contents[i + 1]
  <2> HIDE DEF Contents
  <2> QED BY <1>1, <1>3, <1>7, HeadTailProperties
<1>9. Contents' \in Seq(Bytes) /\ Len(Contents') = Unread - 1
  <2> DEFINE len == Unread - 1
  <2>1. len \in Nat /\ \A i \in 1 .. len : memory[Cell(Succ(rp), i)] \in Bytes
    BY <1>1, <1>6, <1>8, ElementOfSeq
  <2>2. Contents' = [i \in 1 .. len |-> memory[Cell(Succ(rp), i)]]
    BY <1>5
  <2> HIDE DEF len, Contents
  <2>3. Contents' \in Seq(Bytes) /\ Len(Contents') = len
    BY <2>1, <2>2
  <2> QED BY <2>3 DEF len
<1>10. \A i \in 1 .. Unread - 1 : Contents'[i] = Tail(Contents)[i]
  BY <1>5, <1>6, <1>8
<1>11. Contents' = Tail(Contents)
  BY <1>8, <1>9, <1>10, SeqEqual
<1> QED BY <1>3, <1>4, <1>11

LEMMA InitQueue == FifoInit => Queue!Init
<1> SUFFICES ASSUME FifoInit PROVE Queue!Init
  OBVIOUS
<1>1. Unread = 0
  BY DEF FifoInit, Unread, Ahead, WriterReset, ReaderReset
<1> QED BY <1>1 DEF FifoInit, Queue!Init, ReaderReset

\* An edge of the write clock puts the byte in that is noted, or changes nothing.
LEMMA WriterPuts ==
  ASSUME FifoTypeOK, RingInv, WriterStep
  PROVE  [Queue!Step]_<<Contents, Display, put, got>>
<1> PICK enable \in BOOLEAN, data \in Bytes : WriterClock(enable, data)
  BY DEF WriterStep
<1>1. reader' = reader /\ Display' = Display /\ got' = got
  BY DEF WriterClock, Display
<1>2. CASE enable /\ ~Full
  <2>1. /\ writer'.pointer = Succ(writer.pointer)
        /\ memory' = [memory EXCEPT ![Slot(writer.pointer)] = data]
    BY <1>2 DEF WriterClock, WriteEdge, WriterSampled, FifoTypeOK, WriterRegisters
  <2>2. Len(Contents) < Depth - 1 /\ Contents' = Append(Contents, data)
    BY <1>1, <1>2, <2>1, Written
  <2>3. put' = [bit |-> 1 - put.bit, byte |-> data]
    BY <1>2 DEF WriterClock
  <2>4. Queue!Put(data)
    BY <1>1, <2>2, <2>3 DEF Queue!Put, Queue!Noted, Contents, Display, Cell
  <2> QED BY <2>4 DEF Queue!Step
<1>3. CASE ~(enable /\ ~Full)
  <2>1. writer'.pointer = writer.pointer /\ memory' = memory /\ put' = put
    BY <1>3 DEF WriterClock, WriteEdge, WriterSampled, FifoTypeOK, WriterRegisters
  <2> QED BY <1>1, <2>1 DEF Contents, Unread, Cell
<1> QED BY <1>2, <1>3

\* An edge of the read clock leaves the byte that is shown alone, unless it is
\* popped: then it is the one taken.
LEMMA ReaderTakes ==
  ASSUME FifoTypeOK, RingInv, ReaderStep
  PROVE  [Queue!Step]_<<Contents, Display, put, got>>
<1> PICK pop \in BOOLEAN : ReaderClock(pop)
  BY DEF ReaderStep
<1>1. writer' = writer /\ memory' = memory /\ put' = put
  BY DEF ReaderClock
<1>2. CASE reader.valid /\ ~pop
  <2>1. reader'.pointer = reader.pointer /\ reader'.valid = reader.valid /\ reader'.data = reader.data
    BY <1>2 DEF ReaderClock, ReadEdge, ReaderSampled, FifoTypeOK, ReaderRegisters
  <2>2. got' = got
    BY <1>2 DEF ReaderClock
  <2> QED BY <1>1, <2>1, <2>2 DEF Contents, Display, Unread, Cell
<1>3. CASE ~reader.valid \/ pop
  <2>1. IF reader.valid THEN Display = <<reader.data>> /\ got' = [bit |-> 1 - got.bit, byte |-> reader.data]
        ELSE Display = <<>> /\ got' = got
    BY <1>3 DEF ReaderClock, Display
  <2>2. CASE Empty
    <3>1. reader'.pointer = reader.pointer /\ ~reader'.valid
      BY <1>3, <2>2 DEF ReaderClock, ReadEdge, ReaderSampled, FifoTypeOK, ReaderRegisters
    <3>2. Contents' = Contents /\ Display' = <<>>
      BY <1>1, <3>1 DEF Contents, Display, Unread, Cell
    <3>3. CASE reader.valid
      <4>1. Queue!Take
        BY <1>1, <2>1, <3>2, <3>3 DEF Queue!Take, Queue!Noted, Contents, Display, Cell
      <4> QED BY <4>1 DEF Queue!Step
    <3> QED BY <1>1, <2>1, <3>2, <3>3
  <2>3. CASE ~Empty
    <3>1. /\ reader'.pointer = Succ(reader.pointer) /\ reader'.valid
          /\ reader'.data = memory[Slot(reader.pointer)]
      BY <1>3, <2>3 DEF ReaderClock, ReadEdge, Shown, ReaderSampled, FifoTypeOK, ReaderRegisters
    <3>2. /\ Contents # <<>> /\ Head(Contents) = memory[Slot(reader.pointer)]
          /\ Contents' = Tail(Contents)
      BY <1>1, <2>3, <3>1, ShownFirst
    <3>3. Display' = <<Head(Contents)>>
      BY <3>1, <3>2 DEF Display
    <3>4. CASE reader.valid
      <4>1. Queue!ShowNext
        BY <3>2, <3>3 DEF Queue!ShowNext, Contents, Display, Cell
      <4>2. Queue!Take
        BY <1>1, <2>1, <3>4, <4>1 DEF Queue!Take, Queue!Noted, Display
      <4> QED BY <4>2 DEF Queue!Step
    <3>5. CASE ~reader.valid
      <4>1. Queue!Show
        BY <1>1, <2>1, <3>2, <3>3, <3>5 DEF Queue!Show, Queue!ShowNext, Contents, Display, Cell
      <4> QED BY <4>1 DEF Queue!Step
    <3> QED BY <3>4, <3>5
  <2> QED BY <2>2, <2>3
<1> QED BY <1>2, <1>3

LEMMA ResetEmpties ==
  ASSUME CoordinatedReset
  PROVE  Queue!Reset
<1>1. Unread' = 0 /\ ~reader'.valid /\ UNCHANGED <<put, got>>
  BY DEF CoordinatedReset, Unread, Ahead, WriterReset, ReaderReset
<1>2. Contents' = <<>> /\ Display' = <<>>
  BY <1>1 DEF Contents, Display
<1> QED BY <1>1, <1>2 DEF Queue!Reset, Contents, Display, Cell

(***************************************************************************)
(* The FIFO is a queue of Depth - 1 bytes between the two clocks: what is  *)
(* put in comes out once and in order, a byte shown stays until it is      *)
(* popped, and a pop takes the byte shown, however late each side sees the *)
(* other's pointer (nexttang_async_byte_fifo.v:41-60).                     *)
(***************************************************************************)
THEOREM FifoIsQueue == FifoSpec => IsQueue
<1>1. UNCHANGED <<Contents, Display, put, got>> => UNCHANGED Queue!vars
  BY DEF Queue!vars, Contents, Display, Cell
<1>2. UNCHANGED fifoVars => UNCHANGED Queue!vars
  BY DEF fifoVars, Queue!vars, Unread
<1>3. FifoTypeOK /\ RingInv /\ [FifoNext]_fifoVars => CoordinatedReset \/ [Queue!Step]_(Queue!vars)
  BY <1>1, <1>2, WriterPuts, ReaderTakes DEF FifoNext
<1>4. FifoTypeOK /\ RingInv /\ [FifoNext]_fifoVars => [Queue!Next]_(Queue!vars)
  BY <1>3, ResetEmpties DEF Queue!Next
<1>5. FifoTypeOK /\ RingInv /\ [FifoNext]_fifoVars =>
        [~CoordinatedReset => [Queue!Step]_(Queue!vars)]_fifoVars
  BY <1>3
<1> QED BY <1>4, <1>5, InitQueue, TypeCorrect, RingInvariant, PTL DEF FifoSpec, FifoStart, IsQueue, Queue!Spec
=============================================================================
