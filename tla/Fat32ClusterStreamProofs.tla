----------------------- MODULE Fat32ClusterStreamProofs -----------------------
(***************************************************************************)
(* Theorems about the cluster stream, for every volume, sector size, chain *)
(* bound and request: the length asked for is kept, and no request for a   *)
(* sector is ignored by the card.  Then, for the widths of the code, every *)
(* FAT and every file: the bytes are those of the file.                    *)
(***************************************************************************)
EXTENDS Fat32ClusterStream, WellFoundedInduction, TLAPS

USE StreamAssumption

(***************************************************************************)
(* What the proof needs of the types: the fields it speaks of exist, and   *)
(* the counts are natural numbers.                                         *)
(***************************************************************************)
StreamFields == {"state", "remaining", "limited", "position", "sector_start",
                 "busy", "done", "error", "abort_pending"}
StorageFields == {"state", "go", "read_start", "first", "limit"}

Shape ==
  /\ StreamFields \subseteq DOMAIN stream
  /\ StorageFields \subseteq DOMAIN storage
  /\ stream.remaining \in Nat /\ stream.position \in Nat /\ storage.limit \in Nat

IInv == Shape /\ StreamInv

LEMMA InvInit == Init => IInv
  BY DEF Init, IInv, Shape, StreamFields, StorageFields, StreamInv, HandOff,
         Handshake, Waiting, LimitKept

(***************************************************************************)
(* What an edge does to the registers the invariant speaks of, for the     *)
(* three that are clocked together.                                        *)
(***************************************************************************)
StreamKeeps ==
  /\ StreamFields \subseteq DOMAIN stream'
  /\ stream'.remaining \in Nat /\ stream'.position \in Nat

\* The stream has nothing to do, or refuses what it is offered.
Rests ==
  /\ stream.state = "IDLE" /\ stream'.state = "IDLE"
  /\ stream'.busy = stream.busy /\ ~stream'.sector_start
  /\ \/ ~storage.go /\ ~stream'.done /\ stream'.error = stream.error
     \/ storage.go

Starts ==
  /\ stream.state = "IDLE" /\ storage.go /\ stream'.state = "DATA_REQUEST"
  /\ stream'.busy /\ ~stream'.done /\ ~stream'.error /\ ~stream'.sector_start
  /\ stream'.remaining = storage.limit /\ stream'.position = 0

\* The stream goes on with what it does.
Works ==
  /\ stream.state # "IDLE" /\ stream'.state # "IDLE"
  /\ stream'.busy = stream.busy /\ ~stream'.done /\ stream'.error = stream.error
  /\ stream'.limited = stream.limited
  /\ stream.limited => stream'.position + stream'.remaining = stream.position + stream.remaining
  /\ stream'.sector_start => /\ stream.state \in {"DATA_REQUEST", "FAT_REQUEST"}
                             /\ status = "ready"
                             /\ stream'.state \in {"DATA_WAIT", "FAT_WAIT"}
  /\ Waiting /\ event # "done" /\ status # "failed" => stream'.state = stream.state
  /\ stream'.state \in {"DATA_WAIT", "FAT_WAIT"} /\ ~stream'.sector_start
       => stream'.state = stream.state /\ event # "done"

Ends ==
  /\ stream.state \in {"FINISH", "FAILED"} /\ stream'.state = "IDLE"
  /\ ~stream'.busy /\ ~stream'.sector_start

LEMMA StreamStep ==
  ASSUME Shape, HandOff, NEW abort \in BOOLEAN, NEW pause \in BOOLEAN,
         StreamEdge(abort, pause)
  PROVE  StreamKeeps /\ (Rests \/ Starts \/ Works \/ Ends)
  <1> USE DEF Shape, StreamFields, StreamKeeps, Clocked
  <1>1. CASE Idle(abort)
    BY <1>1 DEF Idle, Rests, HandOff
  <1>2. CASE Refuse(abort)
    BY <1>2 DEF Refuse, Rests, HandOff
  <1>3. CASE Start(abort)
    BY <1>3 DEF Start, Starts, StorageFields
  <1>4. CASE DataRequest(abort, pause)
    BY <1>4 DEF DataRequest, AskSector, Works, Waiting
  <1>5. CASE DataByte(abort)
    BY <1>5 DEF DataByte, Works, Waiting
  <1>6. CASE DataDone(abort)
    BY <1>6 DEF DataDone, Works, Waiting
  <1>7. CASE FatRequest(abort)
    BY <1>7 DEF FatRequest, AskSector, Works, Waiting
  <1>8. CASE FatByte(abort)
    BY <1>8 DEF FatByte, Works, Waiting
  <1>9. CASE FatDone(abort)
    BY <1>9 DEF FatDone, Follow, Works, Waiting
  <1>10. CASE Finish(abort)
    BY <1>10 DEF Finish, Ends
  <1>11. CASE Fail(abort)
    BY <1>11 DEF Fail, Ends
  <1>12. QED
    BY <1>1, <1>2, <1>3, <1>4, <1>5, <1>6, <1>7, <1>8, <1>9, <1>10, <1>11 DEF StreamEdge

\* What the storage service does with the operation and the request.
Serves ==
  /\ StorageFields \subseteq DOMAIN storage'
  /\ storage'.limit \in Nat
  /\ \/ /\ storage.state = "IDLE" /\ storage'.go /\ storage'.state = "READ"
        /\ ~storage'.read_start
     \/ /\ ~storage'.go /\ storage'.limit = storage.limit
        /\ storage.state # "READ" /\ storage'.state = storage.state
        /\ ~storage'.read_start
     \/ /\ ~storage'.go /\ storage'.limit = storage.limit
        /\ storage.state = "READ" /\ storage'.read_start = stream.sector_start
        /\ storage'.state = IF stream.error THEN "FAILED"
                            ELSE IF stream.done THEN "IDLE"
                            ELSE "READ"

LEMMA StorageStep ==
  ASSUME Shape, StorageEdge
  PROVE  Serves
  <1> USE DEF Shape, StorageFields, Serves
  <1>1. ASSUME NEW first \in FirstClusters,
               NEW limit \in IF volume.user = "directory" THEN {0} ELSE Limits,
               Offer(first, limit)
        PROVE  Serves
    <2>1. limit \in Nat
      OBVIOUS
    <2>2. QED
      BY <1>1, <2>1 DEF Offer
  <1>2. CASE Rest
    BY <1>2 DEF Rest
  <1>3. CASE Forward
    BY <1>3 DEF Forward
  <1>4. CASE Stay
    BY <1>4 DEF Stay
  <1>5. QED
    BY <1>1, <1>2, <1>3, <1>4 DEF StorageEdge

\* What the card does with the request it is shown and the sector it reads.
Reads ==
  \/ storage.read_start /\ status = "ready" /\ status' = "reading" /\ event' = "none"
  \/ /\ ~(storage.read_start /\ status = "ready")
     /\ \/ status' = status /\ event' \in {"none", "byte"}
        \/ status = "reading" /\ status' = "ready" /\ event' = "done"
        \/ status = "reading" /\ status' = "failed" /\ event' = "none"

LEMMA CardStep ==
  ASSUME CardEdge
  PROVE  Reads
  <1>1. CASE storage.read_start /\ status = "ready"
    BY <1>1 DEF CardEdge, CardMoves, CardTakes, Card!Accept, Reads
  <1>2. CASE ~(storage.read_start /\ status = "ready") /\ Card!Wait
    BY <1>2 DEF Card!Wait, Reads
  <1>3. CASE /\ ~(storage.read_start /\ status = "ready") /\ status = "reading"
             /\ Card!ShowByte \/ Card!Finish \/ Card!Fail
    BY <1>3 DEF Card!ShowByte, Card!Finish, Card!Fail, Reads
  <1>4. QED
    BY <1>1, <1>2, <1>3 DEF CardEdge, CardMoves

(***************************************************************************)
(* The invariant is kept: one lemma per conjunct, one case per thing that  *)
(* the stream can do.                                                      *)
(***************************************************************************)
LEMMA HandOffStep ==
  ASSUME HandOff, Rests \/ Starts \/ Works \/ Ends, Serves
  PROVE  HandOff'
  <1> USE DEF HandOff, Serves
  <1>1. CASE Rests
    BY <1>1 DEF Rests
  <1>2. CASE Starts
    BY <1>2 DEF Starts
  <1>3. CASE Works
    BY <1>3 DEF Works
  <1>4. CASE Ends
    BY <1>4 DEF Ends
  <1>5. QED
    BY <1>1, <1>2, <1>3, <1>4

LEMMA HandshakeStep ==
  ASSUME HandOff, Handshake, Rests \/ Starts \/ Works \/ Ends, Serves, Reads
  PROVE  Handshake'
  <1> USE DEF Handshake, Waiting, Serves, Reads
  <1>1. CASE Rests
    BY <1>1 DEF Rests, HandOff
  <1>2. CASE Starts
    BY <1>2 DEF Starts, HandOff
  <1>3. CASE Works
    BY <1>3 DEF Works, HandOff
  <1>4. CASE Ends
    BY <1>4 DEF Ends, HandOff
  <1>5. QED
    BY <1>1, <1>2, <1>3, <1>4

LEMMA LimitStep ==
  ASSUME HandOff, LimitKept, StreamKeeps, Rests \/ Starts \/ Works \/ Ends, Serves
  PROVE  LimitKept'
  <1> USE DEF LimitKept, HandOff, Serves, StreamKeeps
  <1>1. CASE Rests
    BY <1>1 DEF Rests
  <1>2. CASE Starts
    BY <1>2 DEF Starts
  <1>3. CASE Works
    BY <1>3 DEF Works
  <1>4. CASE Ends
    BY <1>4 DEF Ends
  <1>5. QED
    BY <1>1, <1>2, <1>3, <1>4

LEMMA InvStep == IInv /\ [Edge]_vars => IInv'
  <1> SUFFICES ASSUME IInv, [Edge]_vars PROVE IInv'
    OBVIOUS
  <1>1. CASE Edge
    <2>1. PICK abort, pause \in BOOLEAN : StreamEdge(abort, pause)
      BY <1>1 DEF Edge
    <2>2. StreamKeeps /\ (Rests \/ Starts \/ Works \/ Ends)
      BY <2>1, StreamStep DEF IInv, StreamInv
    <2>3. Serves /\ Reads
      BY <1>1, StorageStep, CardStep DEF Edge, IInv
    <2>4. HandOff' /\ Handshake' /\ LimitKept'
      BY <2>2, <2>3, HandOffStep, HandshakeStep, LimitStep DEF IInv, StreamInv
    <2>5. Shape'
      BY <2>2, <2>3 DEF StreamKeeps, Serves, Shape
    <2>6. QED
      BY <2>4, <2>5 DEF IInv, StreamInv
  <1>2. CASE UNCHANGED vars
    BY <1>2 DEF vars, card, IInv, Shape, StreamInv, HandOff, Handshake, Waiting, LimitKept
  <1>3. QED
    BY <1>1, <1>2

(***************************************************************************)
(* The stream never shows more bytes than it was asked for, and counts     *)
(* those that are missing: for every card, volume and limit.               *)
(***************************************************************************)
THEOREM LimitIsKept == Spec => []LimitKept
  <1>1. IInv => LimitKept
    BY DEF IInv, StreamInv
  <1>2. QED
    BY <1>1, InvInit, InvStep, PTL DEF Spec

(***************************************************************************)
(* A request for a sector reaches a card that is ready for it, two         *)
(* registers after the stream saw that it was.                             *)
(***************************************************************************)
THEOREM RequestsAreTaken == Spec => []NoRequestIgnored
  <1>1. IInv => NoRequestIgnored
    BY DEF IInv, StreamInv, Handshake, NoRequestIgnored
  <1>2. QED
    BY <1>1, InvInit, InvStep, PTL DEF Spec

(***************************************************************************)
(* The bytes of a file.  What follows is about the widths of the code:     *)
(* sectors of 512 bytes, entries of four, for every volume in which no     *)
(* link leads to an entry outside the FAT.                                 *)
(***************************************************************************)
RealWidths == SectorBytes = 512 /\ EntryBytes = 4 /\ Base = 256

\* A set of numbers that is not empty has a least element.
LEMMA LeastNumber ==
  ASSUME NEW T, T \subseteq Nat, T # {}
  PROVE  \E n \in T : \A m \in T : ~(m < n)
<1> DEFINE R == {ss \in Nat \X Nat : ss[1] < ss[2]}
<1>1. IsWellFoundedOn(R, Nat)
  BY NatLessThanWellFounded DEF OpToRel
<1>2. \A n, m \in Nat : <<m, n>> \in R <=> m < n
  OBVIOUS
<1>3. \E n \in T : \A m \in T : <<m, n>> \notin R
  <2> HIDE DEF R
  <2> QED BY <1>1, WFMin
<1> QED BY <1>2, <1>3

\* The chain is what its recursive definition says: no number of links is the least
\* for which there would be no such function.
LEMMA ChainSteps ==
  Chain = [n \in 0..MaxClusters |-> IF n = 0 THEN storage.first ELSE next_cluster(Chain[n - 1])]
<1> DEFINE Follows(f, n) == f = [i \in 0..n |-> IF i = 0 THEN storage.first ELSE next_cluster(f[i - 1])]
           Without == {n \in Nat : \A f : ~Follows(f, n)}
<1>1. ASSUME NEW f, Follows(f, 0) PROVE 0 \notin Without
  BY <1>1
<1>2. 0 \notin Without
  <2> DEFINE f == [i \in 0..0 |-> storage.first]
  <2>1. Follows(f, 0)
    OBVIOUS
  <2> HIDE DEF f
  <2> QED BY <2>1, <1>1
<1>3. ASSUME NEW n \in Nat, NEW f, Follows(f, n) PROVE n + 1 \notin Without
  <2> DEFINE g == [i \in 0..n + 1 |-> IF i = n + 1 THEN next_cluster(f[n]) ELSE f[i]]
  <2>1. \A i \in 0..n : g[i] = f[i]
    BY SMT
  <2>2. \A i \in 0..n : i # 0 => i - 1 \in 0..n
    BY SMT
  <2>3. \A i \in 0..n : f[i] = IF i = 0 THEN storage.first ELSE next_cluster(f[i - 1])
    BY <1>3
  <2>4. g[n + 1] = next_cluster(f[n]) /\ g[0] = f[0] /\ n + 1 # 0 /\ n \in 0..n
    BY SMT
  <2>5. \A i \in 0..n + 1 : g[i] = IF i = 0 THEN storage.first ELSE next_cluster(g[i - 1])
    <3> SUFFICES ASSUME NEW i \in 0..n + 1
                 PROVE  g[i] = IF i = 0 THEN storage.first ELSE next_cluster(g[i - 1])
      OBVIOUS
    <3>1. CASE i \in 0..n
      <4> HIDE DEF g
      <4> QED BY <2>1, <2>2, <2>3, <3>1
    <3>2. CASE i = n + 1
      <4>1. i - 1 = n /\ i # 0
        BY <3>2
      <4> HIDE DEF g
      <4> QED BY <2>1, <2>4, <3>2, <4>1
    <3> QED BY <3>1, <3>2
  <2>6. Follows(g, n + 1)
    <3>1. g = [i \in 0..n + 1 |-> g[i]]
      OBVIOUS
    <3> HIDE DEF g
    <3> QED BY <2>5, <3>1
  <2> HIDE DEF g
  <2> QED BY <2>6
<1>4. Without = {}
  <2> SUFFICES ASSUME Without # {} PROVE FALSE
    OBVIOUS
  <2>1. PICK n \in Without : \A m \in Without : ~(m < n)
    <3>1. Without \subseteq Nat
      OBVIOUS
    <3> HIDE DEF Without
    <3> QED BY <3>1, LeastNumber
  <2>2. n \in Nat /\ n # 0
    BY <1>2
  <2>3. n - 1 \in Nat /\ n - 1 < n /\ n - 1 + 1 = n
    BY <2>2
  <2>4. n - 1 \notin Without
    <3> HIDE DEF Without
    <3> QED BY <2>1, <2>3
  <2>5. PICK f : Follows(f, n - 1)
    BY <2>3, <2>4
  <2>6. n - 1 + 1 \notin Without
    <3> HIDE DEF Follows, Without
    <3> QED BY <1>3, <2>3, <2>5
  <2> QED BY <2>1, <2>3, <2>6
<1>5. \E f : Follows(f, MaxClusters)
  <2>1. MaxClusters \in Nat /\ MaxClusters \notin Without
    BY <1>4
  <2> QED BY <2>1
<1> QED BY <1>5 DEF Chain

\* What the bytes of an entry count.
LEMMA Powers == 256^0 = 1 /\ 256^1 = 256 /\ 256^2 = 256 * 256 /\ 256^3 = 256 * 256 * 256
BY SMT

\* The sum over the captured bytes, which is defined by choosing one of them after the
\* other, is the number they are the digits of.
LEMMA FourBytes ==
  ASSUME RealWidths, stream.fat_value \in [0..3 -> Nat]
  PROVE  NextCluster = (stream.fat_value[0] + stream.fat_value[1] * 256 + stream.fat_value[2] * (256 * 256)
                        + stream.fat_value[3] * (256 * 256 * 256)) % Mask
<1> DEFINE Pick(s) == CHOOSE x \in s : TRUE
           Term(k) == stream.fat_value[k] * Base^k
           Sums(f) == f = [s \in SUBSET (0..3) |-> IF s = {} THEN 0 ELSE Term(Pick(s)) + f[s \ {Pick(s)}]]
           Part(s, k) == IF k \in s THEN Term(k) ELSE 0
           total == [s \in SUBSET (0..3) |-> Part(s, 0) + Part(s, 1) + Part(s, 2) + Part(s, 3)]
           sum == CHOOSE f : Sums(f)
<1>1. /\ Term(0) = stream.fat_value[0] /\ Term(1) = stream.fat_value[1] * 256
      /\ Term(2) = stream.fat_value[2] * (256 * 256) /\ Term(3) = stream.fat_value[3] * (256 * 256 * 256)
  BY Powers, SMT DEF RealWidths
<1>2. Term(0) \in Nat /\ Term(1) \in Nat /\ Term(2) \in Nat /\ Term(3) \in Nat
  BY <1>1, SMT
<1>3. DOMAIN stream.fat_value = 0..3
  OBVIOUS
<1>4. NextCluster = sum[0..3] % Mask
  BY <1>3 DEF NextCluster, MapThenSumSet, MapThenFoldSet
<1>5. \A s \in SUBSET (0..3) : s # {} => Pick(s) \in s
  OBVIOUS
<1> HIDE DEF Pick, Term
<1>6. \A s \in SUBSET (0..3) : s # {} => s \ {Pick(s)} \in SUBSET (0..3)
  OBVIOUS
<1>7. total = [s \in SUBSET (0..3) |-> IF s = {} THEN 0 ELSE Term(Pick(s)) + total[s \ {Pick(s)}]]
  <2>1. total[{}] = 0
    BY SMT
  <2>2. ASSUME NEW s \in SUBSET (0..3), s # {} PROVE total[s] = Term(Pick(s)) + total[s \ {Pick(s)}]
    <3>1. Pick(s) \in s /\ s \ {Pick(s)} \in SUBSET (0..3) /\ Pick(s) \in 0..3
      BY <1>5, <1>6, <2>2
    <3> DEFINE k == Pick(s)
               rest == s \ {k}
    <3>2. total[rest] = Part(rest, 0) + Part(rest, 1) + Part(rest, 2) + Part(rest, 3)
          /\ total[s] = Part(s, 0) + Part(s, 1) + Part(s, 2) + Part(s, 3)
      BY <3>1
    <3>3. \A j \in 0..3 : j # k => Part(rest, j) = Part(s, j)
      BY <3>1
    <3>4. Part(rest, k) = 0 /\ Part(s, k) = Term(k)
      BY <3>1
    <3>5. \A j \in {0, 1, 2, 3} : Part(s, j) \in Nat
      BY <1>2
    <3>6. k \in {0, 1, 2, 3}
      BY <3>1
    <3> HIDE DEF Part, total, k, rest
    <3>7. total[s] = Term(k) + total[rest]
      <4>1. CASE k = 0
        BY <3>2, <3>3, <3>4, <3>5, <4>1
      <4>2. CASE k = 1
        BY <3>2, <3>3, <3>4, <3>5, <4>2
      <4>3. CASE k = 2
        BY <3>2, <3>3, <3>4, <3>5, <4>3
      <4>4. CASE k = 3
        BY <3>2, <3>3, <3>4, <3>5, <4>4
      <4> QED BY <3>6, <4>1, <4>2, <4>3, <4>4
    <3> QED BY <3>7 DEF k, rest
  <2>3. total = [s \in SUBSET (0..3) |-> total[s]]
    OBVIOUS
  <2> HIDE DEF total
  <2> QED BY <2>1, <2>2, <2>3
<1>8. Sums(sum)
  <2>1. Sums(total)
    <3> HIDE DEF total
    <3> QED BY <1>7
  <2> HIDE DEF Sums, total
  <2> QED BY <2>1
<1> DEFINE Agree(s) == sum[s] = total[s]
<1>9. ASSUME NEW s \in SUBSET (0..3), s = {} \/ Agree(s \ {Pick(s)}) PROVE Agree(s)
  <2>1. sum[s] = IF s = {} THEN 0 ELSE Term(Pick(s)) + sum[s \ {Pick(s)}]
    <3> HIDE DEF sum, total
    <3> QED BY <1>8
  <2>2. total[s] = IF s = {} THEN 0 ELSE Term(Pick(s)) + total[s \ {Pick(s)}]
    <3> HIDE DEF sum, total
    <3> QED BY <1>7
  <2> HIDE DEF sum, total
  <2> QED BY <1>9, <2>1, <2>2
<1> HIDE DEF Agree
<1>10. Agree({})
  BY <1>9
<1>11. \A a \in 0..3 : Agree({a})
  <2> SUFFICES ASSUME NEW a \in 0..3 PROVE Agree({a})
    OBVIOUS
  <2>1. {a} \ {Pick({a})} = {}
    BY <1>5
  <2> QED BY <1>9, <1>10, <2>1
<1>12. \A a, b \in 0..3 : Agree({a, b})
  <2> SUFFICES ASSUME NEW a \in 0..3, NEW b \in 0..3 PROVE Agree({a, b})
    OBVIOUS
  <2>1. Pick({a, b}) \in {a, b}
    BY <1>5
  <2>2. {a, b} \ {Pick({a, b})} \in {{}, {a}, {b}}
    BY <2>1
  <2> QED BY <1>9, <1>10, <1>11, <2>2
<1>13. \A a, b, c \in 0..3 : Agree({a, b, c})
  <2> SUFFICES ASSUME NEW a \in 0..3, NEW b \in 0..3, NEW c \in 0..3 PROVE Agree({a, b, c})
    OBVIOUS
  <2>1. Pick({a, b, c}) \in {a, b, c}
    BY <1>5
  <2> DEFINE rest == {a, b, c} \ {Pick({a, b, c})}
  <2>2. rest \in {{}, {a}, {b}, {c}, {a, b}, {a, c}, {b, c}}
    BY <2>1
  <2>3. Agree(rest)
    <3> HIDE DEF rest
    <3> QED BY <1>10, <1>11, <1>12, <2>2
  <2> QED BY <1>9, <2>3
<1>14. Agree(0..3)
  <2>1. Pick(0..3) \in {0, 1, 2, 3}
    BY <1>5
  <2>2. (0..3) \ {Pick(0..3)} \in {{1, 2, 3}, {0, 2, 3}, {0, 1, 3}, {0, 1, 2}}
    BY <2>1
  <2> QED BY SMTT(30), <1>9, <1>13, <2>2
<1>15. total[0..3] = Term(0) + Term(1) + Term(2) + Term(3)
  BY SMT
<1> QED BY <1>1, <1>4, <1>14, <1>15 DEF Agree

\* The entry of a cluster is in the sectors of the FAT.
InFat(cluster) == FatLba + cluster \div EntriesPerSector < DataLba
EntryRange == 256 * 256 * 256 * 256

\* Entries have 32 bits, and no link leads out of the FAT.
FatFits ==
  /\ \A entry \in FatEntries : entry < EntryRange /\ (Link(entry % Mask) => InFat(entry % Mask))
  /\ \A first \in FirstClusters : first >= 2 => InFat(first)

\* The bytes of an entry on the card.
Digit(entry, k) == (entry \div Base^k) % Base

\* Quotient and remainder are the only ones.
LEMMA Quotient ==
  ASSUME NEW q \in Nat, NEW d \in Nat \ {0}, NEW r \in 0..d - 1
  PROVE  (q * d + r) \div d = q /\ (q * d + r) % d = r
<1> DEFINE n == q * d + r
           k == n \div d
           s == n % d
           a == q * d
           b == k * d
<1>1. a \in Nat /\ n = a + r /\ n \in Nat
  OBVIOUS
<1>2. k \in Nat /\ s \in 0..d - 1 /\ n = d * k + s
  <2> HIDE DEF n
  <2> QED BY <1>1, SMT
<1> HIDE DEF n, s, k
<1>3. b \in Nat /\ n = b + s
  BY <1>2
<1>4. k < q => b + d <= a
  <2>1. k < q => (k + 1) * d <= q * d
    BY <1>2
  <2> QED BY <1>2, <2>1
<1>5. k > q => a + d <= b
  <2>1. k > q => (q + 1) * d <= k * d
    BY <1>2
  <2> QED BY <1>2, <2>1
<1> HIDE DEF a, b
<1>6. k = q
  BY <1>1, <1>2, <1>3, <1>4, <1>5
<1>7. a = b
  BY <1>6 DEF a, b
<1>8. s = r
  BY <1>1, <1>2, <1>3, <1>7
<1> QED BY <1>6, <1>8 DEF n, k, s

\* The bytes of an entry, read from its place in the FAT.
LEMMA EntryOnCard ==
  ASSUME RealWidths, NEW cluster \in Nat, InFat(cluster), NEW k \in 0..3
  PROVE  Content(FatLba + cluster \div EntriesPerSector, (cluster % EntriesPerSector) * EntryBytes + k)
           = Digit(Entry(cluster), k)
<1>1. EntriesPerSector = 128
  BY SMT DEF EntriesPerSector, RealWidths
<1> DEFINE q == cluster \div 128
           r == cluster % 128
           lba == FatLba + q
           offset == r * 4 + k
<1>2. q \in Nat /\ r \in 0..127 /\ cluster = 128 * q + r
  BY SMT
<1> HIDE DEF q, r
<1>3. offset \div 4 = r /\ offset % 4 = k
  BY <1>2, SMT
<1>4. (lba - FatLba) * 128 + offset \div 4 = cluster
  BY <1>2, <1>3, SMT
<1>5. lba < DataLba
  BY <1>1 DEF InFat, q
<1>6. ~(lba >= DataLba)
  BY <1>2, <1>5, SMT
<1>7. Content(lba, offset) = (Entry((lba - FatLba) * 128 + offset \div 4) \div Base^(offset % 4)) % Base
  BY <1>1, <1>6 DEF Content, RealWidths
<1>8. Content(lba, offset) = Digit(Entry(cluster), k)
  BY <1>3, <1>4, <1>7 DEF Digit
<1> QED BY <1>1, <1>8 DEF q, r, RealWidths

\* An entry is a number of 32 bits, and its link is inside the FAT.
LEMMA EntryFits ==
  ASSUME FatFits, volume.fat \in [Clusters -> FatEntries], NEW cluster
  PROVE  /\ Entry(cluster) \in Nat /\ Entry(cluster) < EntryRange
         /\ next_cluster(cluster) \in Nat
         /\ Link(next_cluster(cluster)) => InFat(next_cluster(cluster))
<1>1. Mask \in Nat /\ Mask > 0
  OBVIOUS
<1>2. CASE cluster \in Clusters
  <2>1. Entry(cluster) \in FatEntries /\ FatEntries \subseteq Nat
    BY <1>2 DEF Entry
  <2> QED BY <1>1, <2>1 DEF FatFits, next_cluster
<1>3. CASE cluster \notin Clusters
  <2>1. Entry(cluster) = 0 /\ 0 % Mask = 0
    BY <1>1, <1>3 DEF Entry
  <2>2. 0 < EntryRange
    BY SMT DEF EntryRange
  <2> QED BY <2>1, <2>2 DEF next_cluster, Link
<1> QED BY <1>2, <1>3

\* A number of 32 bits is the number of its four bytes.
LEMMA Digits256 ==
  ASSUME NEW e \in Nat, e < 256 * 256 * 256 * 256
  PROVE  e = (e % 256) + ((e \div 256) % 256) * 256 + ((e \div (256 * 256)) % 256) * (256 * 256)
             + ((e \div (256 * 256 * 256)) % 256) * (256 * 256 * 256)
BY SMT

\* An entry is what its four bytes say.
LEMMA NextRight ==
  ASSUME RealWidths, FatFits, volume.fat \in [Clusters -> FatEntries], NEW cluster,
         stream.fat_value \in [0..3 -> Nat],
         \A k \in 0..3 : stream.fat_value[k] = Digit(Entry(cluster), k)
  PROVE  NextCluster = next_cluster(cluster)
<1> DEFINE e == Entry(cluster)
<1> HIDE DEF e
<1>0. Entry(cluster) \in Nat /\ Entry(cluster) < EntryRange
  BY EntryFits
<1>1. e \in Nat /\ e < EntryRange
  BY <1>0 DEF e
<1>2. /\ stream.fat_value[0] = e % 256 /\ stream.fat_value[1] = (e \div 256) % 256
      /\ stream.fat_value[2] = (e \div (256 * 256)) % 256
      /\ stream.fat_value[3] = (e \div (256 * 256 * 256)) % 256
  <2>1. \A k \in 0..3 : stream.fat_value[k] = (e \div 256^k) % 256
    BY ZenonT(60) DEF Digit, e, RealWidths
  <2>2. e \div 1 = e
    BY <1>1, SMT
  <2> QED BY <2>1, <2>2, Powers
<1>3. e = stream.fat_value[0] + stream.fat_value[1] * 256 + stream.fat_value[2] * (256 * 256)
            + stream.fat_value[3] * (256 * 256 * 256)
  BY <1>1, <1>2, Digits256 DEF EntryRange
<1> QED BY <1>3, FourBytes DEF next_cluster, e

(***************************************************************************)
(* Where the stream is.  Along is the offset in the chain at which sector  *)
(* k of its cluster n begins; Got is how many bytes of the sector in hand  *)
(* the stream has looked at; Sought is the sector it waits for.            *)
(***************************************************************************)
Along(spc, n, k) == (n * spc + k) * SectorBytes
DataSector(spc, cluster, k) == DataLba + (cluster - 2) * spc + k
FatSector(cluster) == FatLba + cluster \div EntriesPerSector

Begin == Along(volume.spc, stream.seen - 1, stream.cluster_sector)
Got == IF event = "done" THEN SectorBytes ELSE IF event = "byte" THEN given - 1 ELSE given
Sought ==
  IF stream.state = "DATA_WAIT" THEN DataSector(volume.spc, stream.cluster, stream.cluster_sector)
  ELSE FatSector(stream.cluster)
More == ~stream.limited \/ stream.remaining # 0

(***************************************************************************)
(* What is needed of the types, as in Shape: the registers exist, and the  *)
(* numbers are numbers.                                                    *)
(***************************************************************************)
ChainFields == StreamFields \cup {"cluster", "cluster_sector", "seen", "fat_value", "lba", "byte", "offset", "valid"}

Typed ==
  /\ ChainFields \subseteq DOMAIN stream /\ StorageFields \cup {"sector"} \subseteq DOMAIN storage
  /\ stream.cluster \in Nat /\ stream.cluster_sector \in Nat /\ stream.position \in Nat
  /\ stream.remaining \in Nat /\ stream.fat_value \in [0..3 -> Nat]
  /\ storage.first \in FirstClusters \cup {0} /\ storage.limit \in Nat
  /\ volume.fat \in [Clusters -> FatEntries] /\ volume.spc \in Nat
  /\ volume.user \in {"directory", "file"}
  /\ given \in Nat /\ given <= SectorBytes

\* The promises of the card reader that the stream relies on.
CardRules ==
  /\ status = "ready" => given = 0
  /\ event = "byte" => status = "reading" /\ given > 0
  /\ event = "done" => status = "ready"

\* Stream, storage service and card are about the same sector.
Errand ==
  Waiting =>
    /\ stream.sector_start => stream.lba = Sought
    /\ storage.read_start => storage.sector = Sought
    /\ status = "reading" \/ event = "done" => sector = Sought

\* The stream is in the cluster of the chain that it has counted to.
Walk ==
  stream.busy =>
    /\ stream.seen \in 1..MaxClusters
    /\ stream.cluster = Chain[stream.seen - 1] /\ stream.cluster >= 2 /\ InFat(stream.cluster)
    /\ volume.spc > 0 /\ stream.cluster_sector < volume.spc
    /\ stream.limited <=> storage.limit # 0

\* What has been shown is what lies before the place of the stream in the chain.
Places ==
  /\ stream.state = "DATA_REQUEST" => More /\ stream.position = Begin
  /\ stream.state = "DATA_WAIT" /\ More => stream.position = Begin + Got
  /\ stream.state \in {"FAT_REQUEST", "FAT_WAIT"} =>
       /\ More /\ stream.cluster_sector + 1 = volume.spc
       /\ stream.position = Begin + SectorBytes

\* The bytes captured so far are the bytes of the entry.
Digits ==
  stream.state = "FAT_WAIT" =>
    \A k \in 0..3 : FatByteOffset + k < Got => stream.fat_value[k] = Digit(Entry(stream.cluster), k)

\* Why an operation may end well, and why it may fail.
Finished ==
  /\ stream.seen \in 1..MaxClusters
  /\ stream.limited <=> storage.limit # 0
  /\ stream.limited => stream.position <= storage.limit
  /\ \/ stream.limited /\ stream.position = storage.limit
     \/ ChainEnds(stream.seen)
     \/ stream.abort_pending

Excused ==
  status = "failed" \/ ~(volume.user = "file" /\ storage.limit # 0 /\ read_file(storage.limit))

Outcome ==
  /\ stream.state = "FINISH" \/ (stream.done /\ ~stream.error) => Finished
  /\ stream.state = "FAILED" \/ stream.error => Excused

\* Only a directory scan is aborted.
Aborts == stream.abort_pending => volume.user = "directory"

ChainInv ==
  /\ IInv /\ Typed
  /\ CardRules /\ Errand /\ Walk /\ Places /\ Digits /\ Outcome /\ BytesRight /\ Aborts

(***************************************************************************)
(* What the card and the storage service do, in the terms of the above.    *)
(***************************************************************************)
CardActs ==
  /\ Got' = given
  /\ \/ storage.read_start /\ status = "ready" /\ status' = "reading" /\ sector' = storage.sector
        /\ given' = 0 /\ event' = "none"
     \/ sector' = sector /\ status' = status /\ given' = given /\ event' = "none"
     \/ sector' = sector /\ status = "reading" /\ status' = "reading" /\ given' = given + 1
        /\ given < SectorBytes /\ event' = "byte"
     \/ sector' = sector /\ status = "reading" /\ status' = "ready" /\ given' = 0 /\ event' = "done"
     \/ sector' = sector /\ status = "reading" /\ status' = "failed" /\ given' = given /\ event' = "none"

LEMMA CardActing ==
  ASSUME Typed, CardRules, CardEdge
  PROVE  CardActs
<1>1. given \in Nat
  BY DEF Typed
<1> USE DEF CardActs, CardRules, Got
<1>2. CASE storage.read_start /\ status = "ready"
  BY <1>1, <1>2 DEF CardEdge, CardMoves, CardTakes, Card!Accept
<1>3. CASE ~(storage.read_start /\ status = "ready") /\ Card!Wait
  BY <1>1, <1>3 DEF Card!Wait
<1>4. CASE ~(storage.read_start /\ status = "ready") /\ status = "reading" /\ Card!ShowByte
  BY <1>1, <1>4 DEF Card!ShowByte
<1>5. CASE ~(storage.read_start /\ status = "ready") /\ status = "reading" /\ Card!Finish
  BY <1>1, <1>5 DEF Card!Finish
<1>6. CASE ~(storage.read_start /\ status = "ready") /\ status = "reading" /\ Card!Fail
  BY <1>1, <1>6 DEF Card!Fail
<1> QED BY <1>2, <1>3, <1>4, <1>5, <1>6 DEF CardEdge, CardMoves

StorageActs ==
  \/ /\ storage.state = "IDLE" /\ storage'.state = "READ" /\ storage'.go /\ ~storage'.read_start
     /\ storage'.sector = storage.sector
  \/ /\ storage'.first = storage.first /\ storage'.limit = storage.limit /\ ~storage'.go
     /\ storage.state # "READ" /\ storage'.state = storage.state /\ ~storage'.read_start
     /\ storage'.sector = storage.sector
  \/ /\ storage'.first = storage.first /\ storage'.limit = storage.limit /\ ~storage'.go
     /\ storage.state = "READ" /\ storage'.read_start = stream.sector_start
     /\ storage'.sector = IF stream.sector_start THEN stream.lba ELSE storage.sector

\* The storage service keeps the operation while it is open, and hands the request on.
LEMMA StorageActing ==
  ASSUME Typed, StorageEdge
  PROVE  /\ StorageActs /\ StorageFields \cup {"sector"} \subseteq DOMAIN storage'
         /\ storage'.first \in FirstClusters \cup {0} /\ storage'.limit \in Nat
<1> USE DEF StorageActs, Typed, StorageFields
<1>1. ASSUME NEW first \in FirstClusters,
             NEW limit \in IF volume.user = "directory" THEN {0} ELSE Limits,
             Offer(first, limit)
      PROVE  /\ StorageActs /\ StorageFields \cup {"sector"} \subseteq DOMAIN storage'
             /\ storage'.first \in FirstClusters \cup {0} /\ storage'.limit \in Nat
  <2>1. limit \in Nat
    OBVIOUS
  <2> QED BY <1>1, <2>1 DEF Offer
<1>2. CASE Rest
  BY <1>2 DEF Rest
<1>3. CASE Forward
  BY <1>3 DEF Forward
<1>4. CASE Stay
  BY <1>4 DEF Stay
<1> QED BY <1>1, <1>2, <1>3, <1>4 DEF StorageEdge

\* While an operation is open, its chain and its file stay what they are.
LEMMA ChainStays ==
  ASSUME storage'.first = storage.first, storage'.limit = storage.limit, volume' = volume
  PROVE  /\ Chain' = Chain
         /\ read_file(storage.limit)' <=> read_file(storage.limit)
         /\ ClusterBytes' = ClusterBytes
<1>1. Chain' = Chain
  BY DEF Chain, next_cluster, Entry
<1>2. read_file(storage.limit)' <=> read_file(storage.limit)
  BY <1>1 DEF read_file, cluster_chain, ClusterBytes
<1> QED BY <1>1, <1>2 DEF ClusterBytes

\* Sectors follow each other along a cluster, clusters along the chain.
LEMMA AlongFacts ==
  ASSUME NEW spc \in Nat, NEW n \in Nat, NEW k \in Nat
  PROVE  /\ Along(spc, n, k) \in Nat
         /\ Along(spc, 0, 0) = 0
         /\ Along(spc, n, k) + SectorBytes = Along(spc, n, k + 1)
         /\ Along(spc, n, spc) = Along(spc, n + 1, 0)
<1>1. n * spc \in Nat /\ SectorBytes \in Nat
  OBVIOUS
<1>2. (n + 1) * spc = n * spc + spc
  OBVIOUS
<1> DEFINE m == n * spc
<1>3. \A j \in Nat : (m + j) * SectorBytes \in Nat
  BY <1>1
<1>4. (m + k) * SectorBytes + SectorBytes = (m + (k + 1)) * SectorBytes
  BY <1>1
<1>5. m + 0 = m /\ 0 * spc + 0 = 0 /\ (n + 1) * spc + 0 = m + spc
  BY <1>1, <1>2
<1> QED BY <1>3, <1>4, <1>5 DEF Along

\* Clusters are as long as the chain is at their end.
LEMMA AlongWhole ==
  ASSUME NEW spc \in Nat, NEW n \in Nat
  PROVE  Along(spc, n, 0) = n * (spc * SectorBytes)
<1>1. n * spc \in Nat /\ n * spc + 0 = n * spc
  OBVIOUS
<1>2. n * spc * SectorBytes = n * (spc * SectorBytes)
  OBVIOUS
<1> QED BY <1>1, <1>2 DEF Along

\* The clusters of a chain are numbers, each the link of the one before.
LEMMA ChainTypes ==
  ASSUME Typed, RealWidths, FatFits
  PROVE  /\ Chain[0] = storage.first
         /\ \A n \in 1..MaxClusters : Chain[n] = next_cluster(Chain[n - 1])
         /\ \A n \in 0..MaxClusters : Chain[n] \in Nat
<1>1. /\ Chain[0] = storage.first
      /\ \A n \in 1..MaxClusters : Chain[n] = next_cluster(Chain[n - 1])
  <2>1. 0 \in 0..MaxClusters /\ \A n \in 1..MaxClusters : n \in 0..MaxClusters /\ n # 0
    OBVIOUS
  <2> QED BY <2>1, ChainSteps
<1>2. volume.fat \in [Clusters -> FatEntries] /\ storage.first \in Nat
  BY DEF Typed
<1>3. \A cluster : next_cluster(cluster) \in Nat
  BY <1>2, EntryFits
<1>4. \A n \in 0..MaxClusters : n = 0 \/ n \in 1..MaxClusters
  OBVIOUS
<1> QED BY <1>1, <1>2, <1>3, <1>4

\* Sectors of clusters lie behind those of the FAT.
LEMMA SoughtType ==
  ASSUME Typed, RealWidths, Walk, stream.busy
  PROVE  /\ DataSector(volume.spc, stream.cluster, stream.cluster_sector) \in Nat
         /\ DataSector(volume.spc, stream.cluster, stream.cluster_sector) >= DataLba
         /\ FatSector(stream.cluster) \in Nat
<1>1. /\ stream.cluster \in Nat /\ stream.cluster >= 2 /\ volume.spc \in Nat
      /\ stream.cluster_sector \in Nat
  BY DEF Typed, Walk
<1>2. (stream.cluster - 2) * volume.spc \in Nat
  <2>1. stream.cluster - 2 \in Nat
    BY <1>1
  <2> QED BY <1>1, <2>1
<1>3. EntriesPerSector = 128
  BY SMT DEF EntriesPerSector, RealWidths
<1>4. stream.cluster \div 128 \in Nat
  BY <1>1, SMT
<1> QED BY <1>1, <1>2, <1>3, <1>4 DEF DataSector, FatSector

\* A byte of the FAT that the stream keeps is the digit of the entry it is kept as.
LEMMA ByteOfEntry ==
  ASSUME RealWidths, FatFits, ChainInv, stream.state = "FAT_WAIT", event = "byte",
         given - 1 >= FatByteOffset, given - 1 < FatByteOffset + EntryBytes
  PROVE  /\ given - 1 - FatByteOffset \in 0..3
         /\ Content(sector, given - 1) = Digit(Entry(stream.cluster), given - 1 - FatByteOffset)
         /\ Content(sector, given - 1) \in Nat
<1>1. /\ stream.cluster \in Nat /\ given \in Nat /\ InFat(stream.cluster)
      /\ volume.fat \in [Clusters -> FatEntries] /\ given > 0
      /\ sector = FatLba + stream.cluster \div EntriesPerSector
  <2>1. Waiting /\ stream.busy
    BY DEF Waiting, ChainInv, IInv, StreamInv, HandOff
  <2> QED BY <2>1 DEF ChainInv, Typed, CardRules, Errand, Walk, Sought, FatSector
<1>2. EntriesPerSector = 128 /\ EntryBytes = 4 /\ Base = 256
  BY SMT DEF EntriesPerSector, RealWidths
<1> DEFINE r == stream.cluster % EntriesPerSector
           k == given - 1 - FatByteOffset
<1>3. r \in Nat /\ FatByteOffset = r * 4
  BY <1>1, <1>2, SMT DEF FatByteOffset
<1> HIDE DEF r
<1>4. k \in 0..3 /\ given - 1 = r * 4 + k
  BY <1>1, <1>2, <1>3, SMT
<1> HIDE DEF k
<1>5. Content(sector, given - 1) = Digit(Entry(stream.cluster), k)
  BY <1>1, <1>2, <1>4, EntryOnCard DEF r
<1>6. Digit(Entry(stream.cluster), k) \in Nat
  <2>1. Entry(stream.cluster) \in Nat /\ k \in {0, 1, 2, 3}
    BY <1>1, <1>4, EntryFits
  <2>2. \A e \in Nat : /\ e % 256 \in Nat /\ (e \div 256) % 256 \in Nat
                       /\ (e \div (256 * 256)) % 256 \in Nat
                       /\ (e \div (256 * 256 * 256)) % 256 \in Nat /\ e \div 1 = e
    BY SMT
  <2> DEFINE e == Entry(stream.cluster)
  <2>3. e \in Nat /\ Digit(e, k) = (e \div 256^k) % 256
    BY <1>2, <2>1 DEF Digit
  <2> HIDE DEF e
  <2>4. (e \div 256^k) % 256 \in Nat
    <3>1. CASE k = 0
      BY <2>2, <2>3, <3>1, Powers
    <3>2. CASE k = 1
      BY <2>2, <2>3, <3>2, Powers
    <3>3. CASE k = 2
      BY <2>2, <2>3, <3>3, Powers
    <3>4. CASE k = 3
      BY <2>2, <2>3, <3>4, Powers
    <3> QED BY <2>1, <3>1, <3>2, <3>3, <3>4
  <2> QED BY <2>3, <2>4 DEF e
<1> QED BY <1>4, <1>5, <1>6 DEF k

\* The registers keep their types.
LEMMA TypedKept ==
  ASSUME RealWidths, FatFits, ChainInv, NEW abort \in BOOLEAN, NEW pause \in BOOLEAN, StreamEdge(abort, pause)
  PROVE  /\ ChainFields \subseteq DOMAIN stream'
         /\ stream'.cluster \in Nat /\ stream'.cluster_sector \in Nat /\ stream'.position \in Nat
         /\ stream'.remaining \in Nat /\ stream'.fat_value \in [0..3 -> Nat]
<1> USE DEF ChainFields, StreamFields
<1>1. /\ ChainFields \subseteq DOMAIN stream
      /\ stream.cluster \in Nat /\ stream.cluster_sector \in Nat /\ stream.position \in Nat
      /\ stream.remaining \in Nat /\ stream.fat_value \in [0..3 -> Nat]
      /\ storage.first \in Nat /\ storage.limit \in Nat
  BY DEF ChainInv, Typed
<1>2. CASE Idle(abort)
  BY <1>1, <1>2 DEF Idle, Clocked
<1>3. CASE Refuse(abort)
  BY <1>1, <1>3 DEF Refuse, Clocked
<1>4. CASE Start(abort)
  BY <1>1, <1>4 DEF Start, Clocked
<1>5. CASE DataRequest(abort, pause)
  BY <1>1, <1>5 DEF DataRequest, AskSector, Clocked
<1>6. CASE FatRequest(abort)
  BY <1>1, <1>6 DEF FatRequest, AskSector, Clocked
<1>7. CASE DataByte(abort)
  BY <1>1, <1>7 DEF DataByte, Clocked
<1>8. CASE DataDone(abort)
  <2>1. [k \in DOMAIN stream.fat_value |-> 0] \in [0..3 -> Nat]
    BY <1>1
  <2> QED BY <1>1, <1>8, <2>1 DEF DataDone, Clocked
<1>9. CASE FatDone(abort)
  <2>1. NextCluster \in Nat
    BY <1>1, FourBytes, SMT
  <2> QED BY <1>1, <1>9, <2>1 DEF FatDone, Follow, Clocked
<1>10. CASE FatByte(abort)
  <2>1. CASE event = "byte" /\ given - 1 >= FatByteOffset /\ given - 1 < FatByteOffset + EntryBytes
    <3>1. given - 1 - FatByteOffset \in 0..3 /\ Content(sector, given - 1) \in Nat
      BY <1>10, <2>1, ByteOfEntry DEF FatByte
    <3>2. [stream.fat_value EXCEPT ![given - 1 - FatByteOffset] = Content(sector, given - 1)] \in [0..3 -> Nat]
      BY <1>1, <3>1
    <3> QED BY <1>1, <1>10, <2>1, <3>2 DEF FatByte, Clocked
  <2>2. CASE ~(event = "byte" /\ given - 1 >= FatByteOffset /\ given - 1 < FatByteOffset + EntryBytes)
    BY <1>1, <1>10, <2>2 DEF FatByte, Clocked
  <2> QED BY <2>1, <2>2
<1>11. CASE Finish(abort)
  BY <1>1, <1>11 DEF Finish, Clocked
<1>12. CASE Fail(abort)
  BY <1>1, <1>12 DEF Fail, Clocked
<1> QED BY <1>2, <1>3, <1>4, <1>5, <1>6, <1>7, <1>8, <1>9, <1>10, <1>11, <1>12 DEF StreamEdge

\* While the stream works, or has been given an operation, the operation stays.
LEMMA OperationStays ==
  ASSUME ChainInv, StorageActs, volume' = volume, stream.busy \/ storage.go
  PROVE  /\ storage'.first = storage.first /\ storage'.limit = storage.limit
         /\ Chain' = Chain
         /\ read_file(storage.limit)' <=> read_file(storage.limit)
         /\ ClusterBytes' = ClusterBytes
<1>1. storage.state = "READ"
  BY DEF ChainInv, IInv, StreamInv, HandOff
<1>2. storage'.first = storage.first /\ storage'.limit = storage.limit
  BY <1>1 DEF StorageActs
<1> QED BY <1>2, ChainStays

\* What the stream has captured of the FAT is the link of its cluster.
LEMMA FatAnswer ==
  ASSUME RealWidths, FatFits, ChainInv, stream.state = "FAT_WAIT", event = "done"
  PROVE  /\ NextCluster = next_cluster(stream.cluster)
         /\ Chain[stream.seen] = NextCluster
         /\ NextCluster \in Nat
         /\ Link(NextCluster) => InFat(NextCluster)
<1>1. /\ stream.seen \in 1..MaxClusters /\ stream.cluster = Chain[stream.seen - 1]
      /\ stream.cluster \in Nat /\ stream.fat_value \in [0..3 -> Nat]
      /\ volume.fat \in [Clusters -> FatEntries]
  BY DEF ChainInv, Typed, Walk, IInv, StreamInv, HandOff
<1>2. \A k \in 0..3 : FatByteOffset + k < Got
  <2>1. stream.cluster % EntriesPerSector \in 0..127 /\ EntryBytes = 4 /\ SectorBytes = 512
    <3>1. EntriesPerSector = 128
      BY SMT DEF EntriesPerSector, RealWidths
    <3> QED BY <1>1, <3>1, SMT DEF RealWidths
  <2>2. Got = 512
    BY <2>1 DEF Got
  <2> DEFINE r == stream.cluster % EntriesPerSector
  <2>3. FatByteOffset = r * 4
    BY <2>1 DEF FatByteOffset
  <2>4. \A s \in 0..127, k \in 0..3 : s * 4 + k < 512
    BY SMT
  <2> HIDE DEF r
  <2>5. r \in 0..127
    BY <2>1 DEF r
  <2> QED BY <2>2, <2>3, <2>4, <2>5
<1>3. \A k \in 0..3 : stream.fat_value[k] = Digit(Entry(stream.cluster), k)
  BY <1>2 DEF ChainInv, Digits
<1>4. NextCluster = next_cluster(stream.cluster)
  BY <1>1, <1>3, NextRight
<1>5. Chain[stream.seen] = next_cluster(Chain[stream.seen - 1])
  BY <1>1, ChainTypes DEF ChainInv
<1> QED BY <1>1, <1>4, <1>5, EntryFits

\* The stream goes on to the next cluster of the chain and to no other.
LEMMA WalkStep ==
  ASSUME RealWidths, FatFits, ChainInv, NEW abort \in BOOLEAN, NEW pause \in BOOLEAN,
         StreamEdge(abort, pause), StorageActs, volume' = volume
  PROVE  Walk'
<1>1. /\ ChainFields \subseteq DOMAIN stream /\ (stream.busy <=> stream.state # "IDLE")
      /\ storage.first \in FirstClusters \cup {0} /\ storage.first \in Nat /\ volume.spc \in Nat
      /\ stream.cluster_sector \in Nat
  BY DEF ChainInv, Typed, IInv, StreamInv, HandOff
<1>2. CASE ~stream'.busy
  BY <1>2 DEF Walk
<1> USE DEF ChainFields, StreamFields, Clocked
<1>3. CASE Start(abort)
  <2>1. storage.go
    BY <1>3 DEF Start
  <2>2. Chain' = Chain /\ storage'.limit = storage.limit
    BY <2>1, OperationStays
  <2>3. Chain[0] = storage.first
    BY ChainTypes DEF ChainInv
  <2>4. storage.first >= 2 /\ volume.spc > 0
    BY <1>1, <1>3 DEF Start
  <2>5. InFat(storage.first)
    BY <1>1, <2>4 DEF FatFits
  <2>6. /\ stream'.seen = 1 /\ stream'.cluster = storage.first /\ stream'.cluster_sector = 0
        /\ stream'.limited = (storage.limit # 0)
    BY <1>1, <1>3 DEF Start
  <2>7. 1 \in 1..MaxClusters /\ 1 - 1 = 0
    OBVIOUS
  <2> QED BY <2>2, <2>3, <2>4, <2>5, <2>6, <2>7 DEF Walk
<1>4. ASSUME stream.busy,
             stream'.seen = stream.seen, stream'.cluster = stream.cluster, stream'.limited = stream.limited,
             stream'.cluster_sector = stream.cluster_sector
             \/ (stream'.cluster_sector = stream.cluster_sector + 1 /\ stream.cluster_sector + 1 < volume.spc)
      PROVE  Walk'
  <2>1. Chain' = Chain /\ storage'.limit = storage.limit
    BY <1>4, OperationStays
  <2>2. Walk
    BY DEF ChainInv
  <2> QED BY <1>4, <2>1, <2>2 DEF Walk
<1>5. CASE Idle(abort) \/ Refuse(abort)
  BY <1>1, <1>2, <1>5 DEF Idle, Refuse
<1>6. CASE Finish(abort) \/ Fail(abort)
  BY <1>1, <1>2, <1>6 DEF Finish, Fail
<1>7. CASE DataRequest(abort, pause)
  BY <1>1, <1>4, <1>7 DEF DataRequest, AskSector
<1>8. CASE FatRequest(abort)
  BY <1>1, <1>4, <1>8 DEF FatRequest, AskSector
<1>9. CASE DataByte(abort)
  BY <1>1, <1>4, <1>9 DEF DataByte
<1>10. CASE DataDone(abort)
  BY <1>1, <1>4, <1>10 DEF DataDone
<1>11. CASE FatByte(abort)
  BY <1>1, <1>4, <1>11 DEF FatByte
<1>12. CASE FatDone(abort)
  <2>1. stream.state = "FAT_WAIT" /\ event = "done" /\ stream.busy
    BY <1>1, <1>12 DEF FatDone
  <2>2. CASE stream'.cluster_sector = stream.cluster_sector /\ stream'.cluster = stream.cluster
             /\ stream'.seen = stream.seen /\ stream'.limited = stream.limited
    BY <1>4, <2>1, <2>2
  <2>3. CASE /\ stream'.cluster_sector = 0 /\ stream'.cluster = NextCluster
             /\ stream'.seen = stream.seen + 1 /\ stream'.limited = stream.limited
             /\ ~(stream.seen >= MaxClusters) /\ ~(NextCluster < 2) /\ NextCluster # BadCluster
             /\ ~(NextCluster >= EndOfChain)
    <3>1. Chain' = Chain /\ storage'.limit = storage.limit
      BY <2>1, OperationStays
    <3>2. /\ stream.seen \in 1..MaxClusters /\ volume.spc > 0
          /\ stream.limited <=> storage.limit # 0
      BY <2>1 DEF ChainInv, Walk
    <3>3. Chain[stream.seen] = NextCluster /\ NextCluster \in Nat /\ (Link(NextCluster) => InFat(NextCluster))
      BY <2>1, <2>3, FatAnswer
    <3>4. NextCluster >= 2 /\ Link(NextCluster)
      BY <2>3, <3>3 DEF Link
    <3>5. stream.seen + 1 \in 1..MaxClusters /\ stream.seen + 1 - 1 = stream.seen
      BY <2>3, <3>2
    <3> QED BY <2>3, <3>1, <3>2, <3>3, <3>4, <3>5 DEF Walk
  <2>4. stream'.limited = stream.limited
    BY <1>1, <1>12 DEF FatDone, Follow
  <2> QED BY <1>1, <1>12, <2>2, <2>3, <2>4 DEF FatDone, Follow
<1> QED BY <1>3, <1>5, <1>6, <1>7, <1>8, <1>9, <1>10, <1>11, <1>12 DEF StreamEdge

\* The card keeps its rules.
LEMMA CardRulesStep ==
  ASSUME Typed, CardRules, CardActs
  PROVE  CardRules' /\ given' \in Nat /\ given' <= SectorBytes
<1>1. given \in Nat /\ given <= SectorBytes /\ SectorBytes \in Nat
  BY DEF Typed
<1> QED BY <1>1 DEF CardActs, CardRules

\* How the sector that is waited for comes about and stays.
LEMMA WaitsFor ==
  ASSUME ChainInv, NEW abort \in BOOLEAN, NEW pause \in BOOLEAN,
         StreamEdge(abort, pause), volume' = volume
  PROVE  \/ Waiting' /\ stream'.sector_start /\ stream'.lba = Sought'
         \/ Waiting' /\ ~stream'.sector_start /\ Waiting /\ event # "done" /\ Sought' = Sought
         \/ ~Waiting'
<1>1. ChainFields \subseteq DOMAIN stream
  BY DEF ChainInv, Typed
<1> USE DEF ChainFields, StreamFields, Clocked, Waiting, Sought, DataSector, FatSector
<1>2. CASE Idle(abort)
  BY <1>1, <1>2 DEF Idle
<1>3. CASE Refuse(abort)
  BY <1>1, <1>3 DEF Refuse
<1>4. CASE Start(abort)
  BY <1>1, <1>4 DEF Start
<1>5. CASE DataRequest(abort, pause)
  BY <1>1, <1>5 DEF DataRequest, AskSector
<1>6. CASE FatRequest(abort)
  BY <1>1, <1>6 DEF FatRequest, AskSector
<1>7. CASE DataByte(abort)
  BY <1>1, <1>7 DEF DataByte
<1>8. CASE DataDone(abort)
  BY <1>1, <1>8 DEF DataDone
<1>9. CASE FatDone(abort)
  BY <1>1, <1>9 DEF FatDone, Follow
<1>10. CASE FatByte(abort)
  BY <1>1, <1>10 DEF FatByte
<1>11. CASE Finish(abort)
  BY <1>1, <1>11 DEF Finish
<1>12. CASE Fail(abort)
  BY <1>1, <1>12 DEF Fail
<1> QED BY <1>2, <1>3, <1>4, <1>5, <1>6, <1>7, <1>8, <1>9, <1>10, <1>11, <1>12 DEF StreamEdge

\* The request is handed on, and the sector stays the one that was asked for.
LEMMA ErrandStep ==
  ASSUME ChainInv, IInv', NEW abort \in BOOLEAN, NEW pause \in BOOLEAN,
         StreamEdge(abort, pause), StorageActs, CardActs, volume' = volume
  PROVE  Errand'
<1> SUFFICES ASSUME Waiting' PROVE Errand'
  BY DEF Errand
<1>1. Handshake /\ Handshake' /\ Errand
  BY DEF ChainInv, IInv, StreamInv
<1>2. CASE stream'.sector_start /\ stream'.lba = Sought'
  <2>1. ~storage'.read_start /\ status' = "ready" /\ event' # "done"
    BY <1>1, <1>2 DEF Handshake
  <2> QED BY <1>2, <2>1 DEF Errand
<1>3. CASE ~stream'.sector_start /\ Waiting /\ event # "done" /\ Sought' = Sought
  <2>1. storage'.read_start => storage'.sector = Sought
    BY <1>1, <1>3 DEF StorageActs, Errand
  <2>2. status' = "reading" \/ event' = "done" => sector' = Sought
    BY <1>1, <1>3 DEF CardActs, Errand
  <2> QED BY <1>3, <2>1, <2>2 DEF Errand
<1> QED BY <1>2, <1>3, WaitsFor

\* Each byte of the entry is captured as it comes, once, and stays.
LEMMA DigitsStep ==
  ASSUME RealWidths, FatFits, ChainInv, NEW abort \in BOOLEAN, NEW pause \in BOOLEAN,
         StreamEdge(abort, pause), CardActs, volume' = volume
  PROVE  Digits'
<1> SUFFICES ASSUME stream'.state = "FAT_WAIT" PROVE Digits'
  BY DEF Digits
<1>1. /\ ChainFields \subseteq DOMAIN stream /\ stream.cluster \in Nat /\ given \in Nat
      /\ stream.fat_value \in [0..3 -> Nat]
  BY DEF ChainInv, Typed
<1>2. Got' = given /\ \A n : Entry(n)' = Entry(n)
  BY DEF CardActs, Entry
<1>3. EntriesPerSector = 128 /\ EntryBytes = 4
  BY SMT DEF EntriesPerSector, RealWidths
<1>4. FatByteOffset \in Nat
  <2>1. \A c \in Nat : (c % 128) * 4 \in Nat
    BY SMT
  <2> QED BY <1>1, <1>3, <2>1 DEF FatByteOffset
<1>5. stream'.cluster = stream.cluster =>
        FatByteOffset' = FatByteOffset /\ Entry(stream.cluster)' = Entry(stream.cluster)
  BY <1>2 DEF FatByteOffset, Entry
<1> USE DEF ChainFields, StreamFields, Clocked
<1>6. CASE FatRequest(abort)
  <2>1. status = "ready" /\ stream'.cluster = stream.cluster
    BY <1>1, <1>6 DEF FatRequest, AskSector
  <2>2. given = 0
    BY <2>1 DEF ChainInv, CardRules
  <2>3. \A k \in 0..3 : ~(FatByteOffset + k < 0)
    BY <1>4
  <2> QED BY <1>2, <1>5, <2>1, <2>2, <2>3 DEF Digits
<1>7. CASE FatByte(abort)
  <2>1. stream.state = "FAT_WAIT" /\ event # "done" /\ stream'.cluster = stream.cluster
    BY <1>1, <1>7 DEF FatByte
  <2>2. \A k \in 0..3 : FatByteOffset + k < Got => stream.fat_value[k] = Digit(Entry(stream.cluster), k)
    BY <2>1 DEF ChainInv, Digits
  <2> SUFFICES ASSUME NEW k \in 0..3, FatByteOffset + k < given
               PROVE  stream'.fat_value[k] = Digit(Entry(stream.cluster), k)
    BY <1>2, <1>5, <2>1 DEF Digits, Digit
  <2> DEFINE here == event = "byte" /\ given - 1 >= FatByteOffset /\ given - 1 < FatByteOffset + EntryBytes
             at == given - 1 - FatByteOffset
  <2>3. CASE here
    <3>1. stream'.fat_value = [stream.fat_value EXCEPT ![at] = Content(sector, given - 1)]
      BY <1>1, <1>7, <2>3 DEF FatByte
    <3>2. at \in 0..3 /\ Content(sector, given - 1) = Digit(Entry(stream.cluster), at)
      BY <2>1, <2>3, ByteOfEntry
    <3>3. k # at => FatByteOffset + k < given - 1
      BY <1>1, <1>4
    <3>4. Got = given - 1
      BY <2>3 DEF Got
    <3> HIDE DEF at
    <3> QED BY <1>1, <2>2, <3>1, <3>2, <3>3, <3>4
  <2>4. CASE ~here
    <3>1. stream'.fat_value = stream.fat_value
      BY <1>1, <1>7, <2>4 DEF FatByte
    <3>2. FatByteOffset + k < Got
      <4>1. CASE event = "byte"
        <5>1. FatByteOffset + k # given - 1
          BY <1>1, <1>3, <1>4, <2>4, <4>1
        <5> QED BY <1>1, <1>4, <4>1, <5>1 DEF Got
      <4>2. CASE event # "byte"
        BY <2>1, <4>2 DEF Got
      <4> QED BY <4>1, <4>2
    <3> QED BY <2>2, <3>1, <3>2
  <2> QED BY <2>3, <2>4
<1>8. CASE Idle(abort)
  BY <1>1, <1>8 DEF Idle
<1>9. CASE Refuse(abort)
  BY <1>1, <1>9 DEF Refuse
<1>10. CASE Start(abort)
  BY <1>1, <1>10 DEF Start
<1>11. CASE DataRequest(abort, pause)
  BY <1>1, <1>11 DEF DataRequest, AskSector
<1>12. CASE DataByte(abort)
  BY <1>1, <1>12 DEF DataByte
<1>13. CASE DataDone(abort)
  BY <1>1, <1>13 DEF DataDone
<1>14. CASE FatDone(abort)
  BY <1>1, <1>14 DEF FatDone, Follow
<1>15. CASE Finish(abort)
  BY <1>1, <1>15 DEF Finish
<1>16. CASE Fail(abort)
  BY <1>1, <1>16 DEF Fail
<1> QED BY <1>6, <1>7, <1>8, <1>9, <1>10, <1>11, <1>12, <1>13, <1>14, <1>15, <1>16 DEF StreamEdge

\* Byte for byte, sector for sector, cluster for cluster.
LEMMA PlacesStep ==
  ASSUME RealWidths, FatFits, ChainInv, NEW abort \in BOOLEAN, NEW pause \in BOOLEAN,
         StreamEdge(abort, pause), CardActs, volume' = volume
  PROVE  Places'
<1>1. /\ ChainFields \subseteq DOMAIN stream /\ stream.position \in Nat /\ given \in Nat
      /\ stream.cluster_sector \in Nat /\ volume.spc \in Nat /\ stream.remaining \in Nat
      /\ Got' = given /\ SectorBytes \in Nat
  BY DEF ChainInv, Typed, CardActs
<1>2. stream.busy <=> stream.state # "IDLE"
  BY DEF ChainInv, IInv, StreamInv, HandOff
<1>3. /\ Walk /\ CardRules
      /\ stream.state = "DATA_REQUEST" => More /\ stream.position = Begin
      /\ stream.state = "DATA_WAIT" /\ More => stream.position = Begin + Got
      /\ stream.state \in {"FAT_REQUEST", "FAT_WAIT"} =>
           /\ More /\ stream.cluster_sector + 1 = volume.spc
           /\ stream.position = Begin + SectorBytes
  BY DEF ChainInv, Places
<1> DEFINE keeps == /\ stream'.seen = stream.seen /\ stream'.cluster_sector = stream.cluster_sector
                    /\ stream'.limited = stream.limited
<1>4. keeps => Begin' = Begin /\ (stream'.remaining = stream.remaining => (More' <=> More))
  BY DEF Begin, More
<1>5. stream.busy => /\ stream.seen \in 1..MaxClusters /\ stream.cluster_sector < volume.spc
                     /\ Begin \in Nat
                     /\ Begin + SectorBytes = Along(volume.spc, stream.seen - 1, stream.cluster_sector + 1)
  <2> SUFFICES ASSUME stream.busy PROVE /\ stream.seen \in 1..MaxClusters /\ stream.cluster_sector < volume.spc
                     /\ Begin \in Nat
                     /\ Begin + SectorBytes = Along(volume.spc, stream.seen - 1, stream.cluster_sector + 1)
    OBVIOUS
  <2>1. stream.seen \in 1..MaxClusters /\ stream.cluster_sector < volume.spc
    BY <1>3 DEF Walk
  <2>2. stream.seen - 1 \in Nat
    BY <2>1
  <2> DEFINE m == stream.seen - 1
  <2>3. Begin = Along(volume.spc, m, stream.cluster_sector)
    BY DEF Begin
  <2> HIDE DEF m
  <2>4. m \in Nat
    BY <2>2 DEF m
  <2>5. /\ Along(volume.spc, m, stream.cluster_sector) \in Nat
        /\ Along(volume.spc, m, stream.cluster_sector) + SectorBytes = Along(volume.spc, m, stream.cluster_sector + 1)
    <3>1. volume.spc \in Nat /\ stream.cluster_sector \in Nat
      BY <1>1
    <3> QED BY ONLY <2>4, <3>1, AlongFacts
  <2> QED BY <2>1, <2>3, <2>5 DEF m
<1> USE DEF ChainFields, StreamFields, Clocked
<1>6. CASE Idle(abort) \/ Refuse(abort)
  BY <1>1, <1>2, <1>6 DEF Idle, Refuse, Places
<1>7. CASE Start(abort)
  <2>1. stream'.state = "DATA_REQUEST" /\ stream'.position = 0 /\ stream'.seen = 1 /\ stream'.cluster_sector = 0
        /\ stream'.limited = (storage.limit # 0) /\ stream'.remaining = storage.limit
    BY <1>1, <1>7 DEF Start
  <2>2. Begin' = 0
    <3>1. Begin' = Along(volume.spc, 0, 0)
      BY <2>1 DEF Begin
    <3>2. Along(volume.spc, 0, 0) = 0
      BY <1>1, AlongFacts
    <3> QED BY <3>1, <3>2
  <2> QED BY <2>1, <2>2 DEF Places, More
<1>8. CASE DataRequest(abort, pause)
  <2>1. /\ keeps /\ stream'.remaining = stream.remaining /\ stream'.position = stream.position
        /\ stream.state = "DATA_REQUEST" /\ stream.busy
        /\ stream'.state \in {"DATA_REQUEST", "FINISH", "FAILED"} \/ (stream'.state = "DATA_WAIT" /\ status = "ready")
    BY <1>1, <1>2, <1>8 DEF DataRequest, AskSector
  <2>2. status = "ready" => given = 0
    BY <1>3 DEF CardRules
  <2> HIDE DEF keeps
  <2> QED BY <1>1, <1>3, <1>4, <1>5, <2>1, <2>2 DEF Places
<1>9. CASE FatRequest(abort)
  <2>1. /\ keeps /\ stream'.remaining = stream.remaining /\ stream'.position = stream.position
        /\ stream.state = "FAT_REQUEST"
        /\ stream'.state \in {"FAT_REQUEST", "FINISH", "FAILED", "FAT_WAIT"}
    BY <1>1, <1>2, <1>9 DEF FatRequest, AskSector
  <2> QED BY <1>3, <1>4, <2>1 DEF Places
<1>10. CASE FatByte(abort)
  <2>1. /\ keeps /\ stream'.remaining = stream.remaining /\ stream'.position = stream.position
        /\ stream.state = "FAT_WAIT"
        /\ stream'.state \in {"FAILED", "FAT_WAIT"}
    BY <1>1, <1>2, <1>10 DEF FatByte
  <2> QED BY <1>3, <1>4, <2>1 DEF Places
<1>11. CASE DataByte(abort)
  <2>1. /\ keeps /\ stream.state = "DATA_WAIT" /\ event # "done" /\ stream.busy
        /\ stream'.state \in {"FAILED", "DATA_WAIT"}
    BY <1>1, <1>2, <1>11 DEF DataByte
  <2>2. CASE event = "byte" /\ More
    <3>1. stream'.position = stream.position + 1
      BY <1>1, <1>11, <2>2 DEF DataByte, More
    <3>2. Got = given - 1 /\ stream.position = Begin + Got /\ Begin' = Begin
      BY <1>3, <1>4, <2>1, <2>2 DEF Got
    <3> QED BY <1>1, <1>5, <2>1, <3>1, <3>2 DEF Places
  <2>3. CASE ~(event = "byte" /\ More)
    <3>1. stream'.position = stream.position /\ stream'.remaining = stream.remaining
      BY <1>1, <1>11, <2>3 DEF DataByte, More
    <3>2. CASE ~More
      BY <1>4, <2>1, <3>1, <3>2 DEF Places
    <3>3. CASE More
      <4>1. Got = given
        BY <2>1, <2>3, <3>3 DEF Got
      <4> QED BY <1>1, <1>3, <1>4, <2>1, <3>1, <4>1 DEF Places
    <3> QED BY <3>2, <3>3
  <2> QED BY <2>2, <2>3
<1>12. CASE DataDone(abort)
  <2>1. /\ stream.state = "DATA_WAIT" /\ event = "done" /\ stream.busy
        /\ stream'.seen = stream.seen /\ stream'.limited = stream.limited
        /\ stream'.remaining = stream.remaining /\ stream'.position = stream.position
        /\ \/ stream'.state = "FINISH"
           \/ More /\ stream'.state = "DATA_REQUEST" /\ stream'.cluster_sector = stream.cluster_sector + 1
           \/ More /\ stream'.state = "FAT_REQUEST" /\ stream'.cluster_sector = stream.cluster_sector
              /\ ~(stream.cluster_sector + 1 < volume.spc)
    BY <1>1, <1>2, <1>12 DEF DataDone, More
  <2>2. More => stream.position = Along(volume.spc, stream.seen - 1, stream.cluster_sector + 1)
                /\ stream.position = Begin + SectorBytes
    BY <1>3, <1>5, <2>1 DEF Got
  <2>3. More' <=> More
    BY <2>1 DEF More
  <2>4. ~(stream.cluster_sector + 1 < volume.spc) => stream.cluster_sector + 1 = volume.spc
    BY <1>1, <1>5, <2>1
  <2> QED BY <2>1, <2>2, <2>3, <2>4 DEF Places, Begin
<1>13. CASE FatDone(abort)
  <2>1. /\ stream.state = "FAT_WAIT" /\ stream.busy
        /\ stream'.limited = stream.limited
        /\ stream'.remaining = stream.remaining /\ stream'.position = stream.position
        /\ \/ stream'.state \in {"FINISH", "FAILED"}
           \/ stream'.state = "DATA_REQUEST" /\ stream'.cluster_sector = 0 /\ stream'.seen = stream.seen + 1
    BY <1>1, <1>2, <1>13 DEF FatDone, Follow
  <2>2. stream.position = Along(volume.spc, stream.seen - 1, volume.spc)
    BY <1>3, <1>5, <2>1
  <2>3. stream.position = Along(volume.spc, stream.seen, 0)
    <3>1. stream.seen - 1 \in Nat /\ stream.seen - 1 + 1 = stream.seen
      BY <1>5, <2>1
    <3> DEFINE m == stream.seen - 1
    <3>2. m + 1 = stream.seen /\ stream.position = Along(volume.spc, m, volume.spc)
      BY <2>2, <3>1
    <3> HIDE DEF m
    <3>3. m \in Nat
      BY <3>1 DEF m
    <3>4. Along(volume.spc, m, volume.spc) = Along(volume.spc, m + 1, 0)
      BY <1>1, <3>3, AlongFacts
    <3> QED BY <3>2, <3>4
  <2>4. stream.seen + 1 - 1 = stream.seen
    BY <1>5, <2>1
  <2>5. More' <=> More
    BY <2>1 DEF More
  <2>6. stream'.state = "DATA_REQUEST" => Begin' = stream.position
    <3>1. CASE stream'.state = "DATA_REQUEST"
      <4>1. stream'.cluster_sector = 0 /\ stream'.seen - 1 = stream.seen
        <5>1. stream'.cluster_sector = 0 /\ stream'.seen = stream.seen + 1
          BY ONLY <2>1, <3>1
        <5>2. stream.seen \in Nat
          BY <1>5, <2>1
        <5> QED BY ONLY <5>1, <5>2
      <4>2. Begin' = Along(volume.spc, stream.seen, 0)
        BY <4>1 DEF Begin
      <4> QED BY <2>3, <4>2
    <3> QED BY <3>1
  <2>7. More
    BY <1>3, <2>1
  <2> QED BY <2>1, <2>5, <2>6, <2>7 DEF Places
<1>14. CASE Finish(abort) \/ Fail(abort)
  BY ZenonT(60), <1>1, <1>14 DEF Finish, Fail, Places
<1> QED BY <1>6, <1>7, <1>8, <1>9, <1>10, <1>11, <1>12, <1>13, <1>14 DEF StreamEdge

\* An abort is remembered for a directory scan only.
LEMMA AbortsStep ==
  ASSUME ChainInv, NEW abort \in BOOLEAN, NEW pause \in BOOLEAN,
         StreamEdge(abort, pause), abort => volume.user = "directory", volume' = volume
  PROVE  Aborts'
<1>1. ChainFields \subseteq DOMAIN stream /\ Aborts
  BY DEF ChainInv, Typed
<1> USE DEF ChainFields, StreamFields, Clocked, Aborts
<1>2. CASE Idle(abort)
  BY <1>1, <1>2 DEF Idle
<1>3. CASE Refuse(abort)
  BY <1>1, <1>3 DEF Refuse
<1>4. CASE Start(abort)
  BY <1>1, <1>4 DEF Start
<1>5. CASE DataRequest(abort, pause)
  BY <1>1, <1>5 DEF DataRequest, AskSector
<1>6. CASE FatRequest(abort)
  BY <1>1, <1>6 DEF FatRequest, AskSector
<1>7. CASE DataByte(abort)
  BY <1>1, <1>7 DEF DataByte
<1>8. CASE DataDone(abort)
  BY <1>1, <1>8 DEF DataDone
<1>9. CASE FatDone(abort)
  BY <1>1, <1>9 DEF FatDone, Follow
<1>10. CASE FatByte(abort)
  BY <1>1, <1>10 DEF FatByte
<1>11. CASE Finish(abort)
  BY <1>1, <1>11 DEF Finish
<1>12. CASE Fail(abort)
  BY <1>1, <1>12 DEF Fail
<1> QED BY <1>2, <1>3, <1>4, <1>5, <1>6, <1>7, <1>8, <1>9, <1>10, <1>11, <1>12 DEF StreamEdge

\* A byte of a sector of the chain is the byte of the chain at its offset.
LEMMA ByteOfChain ==
  ASSUME NEW spc \in Nat, NEW n \in Nat, NEW k \in Nat, k < spc, NEW g \in Nat, g < SectorBytes,
         NEW offset, offset = Along(spc, n, k) + g
  PROVE  /\ offset \div (spc * SectorBytes) = n
         /\ (offset % (spc * SectorBytes)) \div SectorBytes = k
         /\ offset % SectorBytes = g
<1> DEFINE d == spc * SectorBytes
           r == k * SectorBytes + g
<1>1. SectorBytes \in Nat \ {0}
  OBVIOUS
<1>2. (n * spc + k) * SectorBytes = n * (spc * SectorBytes) + k * SectorBytes
  BY <1>1
<1>3. k * SectorBytes \in Nat /\ (k + 1) * SectorBytes <= spc * SectorBytes
      /\ (k + 1) * SectorBytes = k * SectorBytes + SectorBytes
  <2>1. k + 1 <= spc /\ k + 1 \in Nat
    OBVIOUS
  <2>2. \A a, b, c \in Nat : a <= b => a * c <= b * c
    BY SMT
  <2> QED BY <1>1, <2>1, <2>2
<1>4. d \in Nat /\ n * d \in Nat
  BY <1>1
<1>5. offset = n * d + r
  <2> DEFINE a == n * (spc * SectorBytes)
             b == k * SectorBytes
  <2>1. a \in Nat /\ b \in Nat /\ Along(spc, n, k) = a + b
    BY <1>2, <1>3, <1>4 DEF Along
  <2> HIDE DEF a, b
  <2>2. offset = a + (b + g)
    BY <2>1
  <2> QED BY <2>2 DEF a, b
<1>6. r \in 0..d - 1 /\ d # 0
  <2> DEFINE b == k * SectorBytes
             c == (k + 1) * SectorBytes
  <2>1. b \in Nat /\ c = b + SectorBytes /\ c <= d
    BY <1>3
  <2> HIDE DEF b, c, d
  <2>2. b + g \in 0..d - 1 /\ d # 0
    BY <1>1, <1>4, <2>1
  <2> QED BY <2>2 DEF b
<1>7. offset \div d = n /\ offset % d = r
  <2> HIDE DEF d, r
  <2>1. d \in Nat \ {0} /\ n \in Nat /\ r \in 0..d - 1
    BY <1>4, <1>6
  <2>2. (n * d + r) \div d = n /\ (n * d + r) % d = r
    BY ONLY <2>1, Quotient
  <2> QED BY ONLY <1>5, <2>2
<1>8. g \in 0..SectorBytes - 1
  BY <1>1
<1>9. r \div SectorBytes = k
  BY <1>1, <1>8, Quotient
<1>10. offset % SectorBytes = g
  <2> DEFINE q == n * spc + k
  <2>1. offset = q * SectorBytes + g
    BY DEF Along
  <2>2. n * spc \in Nat
    OBVIOUS
  <2>3. q \in Nat
    BY <2>2
  <2> HIDE DEF q
  <2>4. (q * SectorBytes + g) % SectorBytes = g
    BY ONLY <1>1, <1>8, <2>3, Quotient
  <2> QED BY ONLY <2>1, <2>4
<1> QED BY <1>7, <1>9, <1>10

\* The byte that is shown is the one that the reader of the host returns.
LEMMA BytesStep ==
  ASSUME RealWidths, FatFits, ChainInv, NEW abort \in BOOLEAN, NEW pause \in BOOLEAN,
         StreamEdge(abort, pause), StorageActs, volume' = volume
  PROVE  BytesRight'
<1>1. /\ ChainFields \subseteq DOMAIN stream /\ stream.position \in Nat /\ given \in Nat
      /\ given <= SectorBytes /\ stream.cluster_sector \in Nat /\ volume.spc \in Nat
      /\ stream.cluster \in Nat
  BY DEF ChainInv, Typed
<1> USE DEF ChainFields, StreamFields, Clocked
<1> SUFFICES ASSUME stream'.valid PROVE BytesRight'
  BY DEF BytesRight
<1>2. DataByte(abort) /\ event = "byte" /\ More
  <2>1. CASE Idle(abort)
    BY <1>1, <2>1 DEF Idle
  <2>2. CASE Refuse(abort)
    BY <1>1, <2>2 DEF Refuse
  <2>3. CASE Start(abort)
    BY <1>1, <2>3 DEF Start
  <2>4. CASE DataRequest(abort, pause)
    BY <1>1, <2>4 DEF DataRequest, AskSector
  <2>5. CASE FatRequest(abort)
    BY <1>1, <2>5 DEF FatRequest, AskSector
  <2>6. CASE DataByte(abort)
    BY <1>1, <2>6 DEF DataByte, More
  <2>7. CASE DataDone(abort)
    BY <1>1, <2>7 DEF DataDone
  <2>8. CASE FatDone(abort)
    BY <1>1, <2>8 DEF FatDone, Follow
  <2>9. CASE FatByte(abort)
    BY <1>1, <2>9 DEF FatByte
  <2>10. CASE Finish(abort)
    BY <1>1, <2>10 DEF Finish
  <2>11. CASE Fail(abort)
    BY <1>1, <2>11 DEF Fail
  <2> QED BY <2>1, <2>2, <2>3, <2>4, <2>5, <2>6, <2>7, <2>8, <2>9, <2>10, <2>11 DEF StreamEdge
<1>3. /\ stream.state = "DATA_WAIT" /\ stream'.byte = Content(sector, given - 1)
      /\ stream'.offset = stream.position
  BY <1>1, <1>2 DEF DataByte, More
<1>4. stream.busy /\ Waiting
  BY <1>3 DEF ChainInv, IInv, StreamInv, HandOff, Waiting
<1>5. /\ stream.seen \in 1..MaxClusters /\ stream.cluster = Chain[stream.seen - 1]
      /\ stream.cluster_sector < volume.spc
  BY <1>4 DEF ChainInv, Walk
<1>6. given > 0 /\ sector = DataSector(volume.spc, stream.cluster, stream.cluster_sector)
      /\ stream.position = Begin + (given - 1)
  BY <1>2, <1>3, <1>4 DEF ChainInv, CardRules, Errand, Places, Sought, Got
<1>7. sector \in Nat /\ sector >= DataLba
  BY <1>4, <1>6, SoughtType DEF ChainInv
<1> DEFINE m == stream.seen - 1
           g == given - 1
<1>8. Begin = Along(volume.spc, m, stream.cluster_sector) /\ stream.cluster = Chain[m]
  BY <1>5 DEF Begin
<1>9. m \in Nat /\ g \in Nat /\ g < SectorBytes
  BY <1>1, <1>5, <1>6
<1>10. Content(sector, g) = sector * SectorBytes + g
  BY <1>7 DEF Content
<1> HIDE DEF m, g
<1>11. stream.position = Along(volume.spc, m, stream.cluster_sector) + g
  BY <1>6, <1>8 DEF g
<1>12. /\ stream.position \div ClusterBytes = m
       /\ (stream.position % ClusterBytes) \div SectorBytes = stream.cluster_sector
       /\ stream.position % SectorBytes = g
  BY <1>1, <1>5, <1>9, <1>11, ByteOfChain DEF ClusterBytes
<1>13. cluster_bytes(stream.position) = Place(stream.cluster, stream.cluster_sector, g)
  BY <1>8, <1>12 DEF cluster_bytes
<1>14. Place(stream.cluster, stream.cluster_sector, g) = sector * SectorBytes + g
  BY <1>6 DEF Place, DataSector
<1>15. stream'.byte = cluster_bytes(stream'.offset)
  BY <1>3, <1>10, <1>13, <1>14 DEF g
<1>16. Chain' = Chain
  BY <1>4, OperationStays
<1> QED BY <1>15, <1>16 DEF BytesRight, cluster_bytes, ClusterBytes, Place

\* Multiples are ordered as what is multiplied.
LEMMA Multiples ==
  ASSUME NEW a \in Nat, NEW b \in Nat, NEW c \in Nat, a <= b
  PROVE  a * c <= b * c
BY SMT

\* At a FAT entry the stream has shown its clusters whole.
LEMMA WholeClusters ==
  ASSUME ChainInv, stream.state = "FAT_WAIT", stream.busy
  PROVE  stream.position = stream.seen * ClusterBytes
<1>1. /\ stream.seen \in 1..MaxClusters /\ stream.cluster_sector + 1 = volume.spc
      /\ stream.position = Begin + SectorBytes
  BY DEF ChainInv, Walk, Places
<1>2. volume.spc \in Nat /\ stream.cluster_sector \in Nat
  BY DEF ChainInv, Typed
<1> DEFINE m == stream.seen - 1
<1>3. m \in Nat /\ m + 1 = stream.seen /\ stream.seen \in Nat
  BY <1>1
<1>4. Begin = Along(volume.spc, m, stream.cluster_sector)
  BY DEF Begin
<1> HIDE DEF m
<1>5. Along(volume.spc, m, stream.cluster_sector) + SectorBytes = Along(volume.spc, m, stream.cluster_sector + 1)
  BY ONLY <1>2, <1>3, AlongFacts
<1>6. Along(volume.spc, m, volume.spc) = Along(volume.spc, m + 1, 0)
  BY ONLY <1>2, <1>3, AlongFacts
<1>7. Along(volume.spc, stream.seen, 0) = stream.seen * (volume.spc * SectorBytes)
  BY ONLY <1>2, <1>3, AlongWhole
<1> QED BY <1>1, <1>3, <1>4, <1>5, <1>6, <1>7 DEF ClusterBytes

\* A failed card stays failed, and what excuses an error stays true of the operation.
LEMMA ExcuseStays ==
  ASSUME Excused, CardActs, volume' = volume, storage'.limit = storage.limit,
         read_file(storage.limit)' <=> read_file(storage.limit)
  PROVE  Excused'
<1>1. status = "failed" => status' = "failed"
  BY DEF CardActs
<1> QED BY <1>1 DEF Excused

\* The reader of the host does not get past a first cluster that is none, nor past a
\* link that the stream does not follow.
LEMMA NoFile ==
  ASSUME RealWidths, FatFits, ChainInv, storage.limit # 0,
         \/ storage.first < 2
         \/ volume.spc = 0
         \/ /\ stream.state = "FAT_WAIT" /\ event = "done" /\ stream.busy
            /\ NextCluster < 2 \/ NextCluster = BadCluster \/ stream.seen >= MaxClusters
  PROVE  ~read_file(storage.limit)
<1> SUFFICES ASSUME NEW n \in 1..MaxClusters, n * ClusterBytes >= storage.limit,
                    (n - 1) * ClusterBytes < storage.limit, cluster_chain(n)
             PROVE  FALSE
  BY DEF read_file
<1>1. volume.spc \in Nat /\ storage.limit \in Nat /\ storage.first \in Nat /\ n \in Nat
      /\ storage.limit > 0
  BY DEF ChainInv, Typed
<1>2. ClusterBytes \in Nat
  BY <1>1 DEF ClusterBytes
<1>3. \A i \in 0..n - 1 : Link(Chain[i])
  BY DEF cluster_chain
<1>4. CASE storage.first < 2
  <2>1. Chain[0] = storage.first /\ 0 \in 0..n - 1
    BY ChainTypes DEF ChainInv
  <2> QED BY <1>1, <1>3, <1>4, <2>1 DEF Link
<1>5. CASE volume.spc = 0
  <2>1. ClusterBytes = 0
    BY <1>5 DEF ClusterBytes
  <2> QED BY <1>1, <2>1
<1>6. CASE /\ stream.state = "FAT_WAIT" /\ event = "done" /\ stream.busy
           /\ NextCluster < 2 \/ NextCluster = BadCluster \/ stream.seen >= MaxClusters
  <2>1. /\ stream.seen \in 1..MaxClusters /\ stream.seen \in Nat
        /\ Chain[stream.seen] = NextCluster /\ NextCluster \in Nat
    BY <1>6, FatAnswer DEF ChainInv, Walk
  <2>2. stream.position = stream.seen * ClusterBytes
    BY <1>6, WholeClusters
  <2>3. stream.position < storage.limit
    <3>1. stream.limited /\ stream.remaining # 0
      BY <1>6 DEF ChainInv, Walk, Places, More
    <3>2. stream.position + stream.remaining = storage.limit
      BY <1>6, <3>1 DEF ChainInv, IInv, StreamInv, LimitKept
    <3> QED BY <1>1, <3>1, <3>2 DEF ChainInv, Typed
  <2>4. stream.seen < n
    <3> SUFFICES ASSUME n <= stream.seen PROVE FALSE
      BY <1>1, <2>1
    <3>1. n * ClusterBytes <= stream.seen * ClusterBytes
      BY <1>1, <1>2, <2>1, Multiples
    <3> DEFINE a == n * ClusterBytes
               b == stream.seen * ClusterBytes
    <3>2. a \in Nat /\ b \in Nat /\ a <= b /\ b < storage.limit /\ a >= storage.limit
      BY <1>1, <1>2, <2>1, <2>2, <2>3, <3>1
    <3> HIDE DEF a, b
    <3> QED BY <1>1, <3>2
  <2>5. Link(Chain[stream.seen])
    BY <1>1, <1>3, <2>1, <2>4
  <2> QED BY <1>6, <2>1, <2>4, <2>5 DEF Link
<1> QED BY <1>4, <1>5, <1>6

\* A reason to finish, found while the stream works, is a reason afterwards.
LEMMA FinishedStays ==
  ASSUME ChainInv, StorageActs, volume' = volume, stream.busy,
         stream'.seen = stream.seen, stream'.limited = stream.limited,
         stream'.position = stream.position,
         \/ stream.limited /\ stream.remaining = 0
         \/ ChainEnds(stream.seen)
         \/ stream'.abort_pending
         \/ Finished /\ (stream.abort_pending => stream'.abort_pending)
  PROVE  Finished'
<1>1. storage'.limit = storage.limit /\ Chain' = Chain /\ ClusterBytes' = ClusterBytes
  BY OperationStays
<1>2. stream.seen \in 1..MaxClusters /\ (stream.limited <=> storage.limit # 0)
  BY DEF ChainInv, Walk
<1>3. /\ stream.limited => stream.position + stream.remaining = storage.limit
      /\ stream.position \in Nat /\ stream.remaining \in Nat
  BY DEF ChainInv, IInv, StreamInv, LimitKept, Typed
<1>4. ChainEnds(stream.seen) => ChainEnds(stream.seen)'
  BY <1>1 DEF ChainEnds
<1>5. stream.limited => stream.position <= storage.limit
  BY <1>3
<1>6. stream.limited /\ stream.remaining = 0 => stream.position = storage.limit
  BY <1>3
<1> QED BY <1>1, <1>2, <1>4, <1>5, <1>6 DEF Finished, ChainEnds

\* An operation ends well for a reason, and fails when the file cannot be read.
LEMMA OutcomeStep ==
  ASSUME RealWidths, FatFits, ChainInv, NEW abort \in BOOLEAN, NEW pause \in BOOLEAN,
         StreamEdge(abort, pause), StorageActs, CardActs, volume' = volume
  PROVE  Outcome'
<1>1. ChainFields \subseteq DOMAIN stream /\ storage.limit \in Nat
  BY DEF ChainInv, Typed
<1>2. /\ stream.busy <=> stream.state # "IDLE"
      /\ stream.busy => storage.state = "READ" /\ ~stream.done /\ ~stream.error
      /\ storage.go => storage.state = "READ"
      /\ stream.error => storage.state # "IDLE"
  BY DEF ChainInv, IInv, StreamInv, HandOff
<1>3. Outcome
  BY DEF ChainInv
<1>4. storage.state # "IDLE" => /\ storage'.limit = storage.limit
                                /\ read_file(storage.limit)' <=> read_file(storage.limit)
  <2> SUFFICES ASSUME storage.state # "IDLE"
               PROVE  /\ storage'.limit = storage.limit
                      /\ read_file(storage.limit)' <=> read_file(storage.limit)
    OBVIOUS
  <2>1. storage'.first = storage.first /\ storage'.limit = storage.limit
    BY DEF StorageActs
  <2> QED BY <2>1, ChainStays
<1>5. status = "failed" => Excused'
  BY DEF CardActs, Excused
<1>6. storage.state # "IDLE" /\ Excused => Excused'
  BY <1>4, ExcuseStays
<1> USE DEF ChainFields, StreamFields, Clocked
<1>7. CASE Idle(abort)
  <2>1. stream'.state = "IDLE" /\ ~stream'.done /\ stream'.error = stream.error
    BY <1>1, <1>2, <1>7 DEF Idle
  <2> QED BY <1>2, <1>3, <1>6, <2>1 DEF Outcome
<1>8. CASE Refuse(abort)
  <2>1. stream'.state = "IDLE" /\ stream'.error /\ storage.go
    BY <1>1, <1>2, <1>8 DEF Refuse
  <2>2. Excused
    BY <1>8, NoFile DEF Refuse, Excused
  <2> QED BY <1>2, <1>6, <2>1, <2>2 DEF Outcome
<1>9. CASE Start(abort)
  BY <1>1, <1>9 DEF Start, Outcome
<1>10. ASSUME stream.busy, ~stream'.done, stream'.error = stream.error,
              stream'.state = "FAILED" => status = "failed" \/ Excused,
              stream'.state = "FINISH" =>
                /\ stream'.seen = stream.seen /\ stream'.limited = stream.limited
                /\ stream'.position = stream.position
                /\ \/ stream.limited /\ stream.remaining = 0
                   \/ ChainEnds(stream.seen)
                   \/ stream'.abort_pending
       PROVE  Outcome'
  <2>1. stream'.state = "FINISH" => Finished'
    BY <1>10, FinishedStays
  <2>2. stream'.state = "FAILED" => Excused'
    BY <1>2, <1>5, <1>6, <1>10
  <2> QED BY <1>2, <1>10, <2>1, <2>2 DEF Outcome
<1>11. CASE DataRequest(abort, pause)
  BY <1>1, <1>2, <1>10, <1>11 DEF DataRequest, AskSector, Aborted
<1>12. CASE FatRequest(abort)
  BY <1>1, <1>2, <1>10, <1>12 DEF FatRequest, AskSector, Aborted
<1>13. CASE DataByte(abort)
  BY <1>1, <1>2, <1>10, <1>13 DEF DataByte
<1>14. CASE FatByte(abort)
  BY <1>1, <1>2, <1>10, <1>14 DEF FatByte
<1>15. CASE DataDone(abort)
  BY <1>1, <1>2, <1>10, <1>15 DEF DataDone, Aborted
<1>16. CASE FatDone(abort)
  <2>1. stream.state = "FAT_WAIT" /\ event = "done" /\ stream.busy
    BY <1>2, <1>16 DEF FatDone
  <2>2. /\ ~stream'.done /\ stream'.error = stream.error
        /\ stream'.seen = stream.seen \/ stream'.state = "DATA_REQUEST"
        /\ stream'.limited = stream.limited /\ stream'.position = stream.position
    BY <1>1, <1>16 DEF FatDone, Follow
  <2>3. stream'.state = "FAILED" =>
          status = "failed" \/ NextCluster < 2 \/ NextCluster = BadCluster \/ stream.seen >= MaxClusters
    BY <1>1, <2>1, <1>16 DEF FatDone, Follow
  <2>4. stream'.state = "FAILED" => status = "failed" \/ Excused
    BY <2>1, <2>3, NoFile DEF Excused
  <2>5. stream'.state = "FINISH" => stream'.abort_pending \/ NextCluster >= EndOfChain
    BY <1>1, <2>1, <1>16 DEF FatDone, Follow, Aborted
  <2>6. NextCluster >= EndOfChain => ChainEnds(stream.seen)
    BY <2>1, FatAnswer, WholeClusters DEF ChainEnds
  <2> QED BY <1>10, <2>1, <2>2, <2>4, <2>5, <2>6
<1>17. CASE Finish(abort)
  <2>1. stream.state = "FINISH" /\ stream.busy /\ stream'.state = "IDLE" /\ stream'.error = stream.error
        /\ stream'.seen = stream.seen /\ stream'.limited = stream.limited
        /\ stream'.position = stream.position /\ (stream.abort_pending => stream'.abort_pending)
    BY <1>1, <1>2, <1>17 DEF Finish
  <2>2. Finished
    BY <1>3, <2>1 DEF Outcome
  <2>3. Finished'
    BY <2>1, <2>2, FinishedStays
  <2> QED BY <1>2, <2>1, <2>3 DEF Outcome
<1>18. CASE Fail(abort)
  <2>1. stream.state = "FAILED" /\ stream.busy /\ stream'.state = "IDLE" /\ stream'.error
    BY <1>1, <1>2, <1>18 DEF Fail
  <2>2. Excused'
    BY <1>2, <1>3, <1>6, <2>1 DEF Outcome
  <2> QED BY <2>1, <2>2 DEF Outcome
<1> QED BY <1>7, <1>8, <1>9, <1>11, <1>12, <1>13, <1>14, <1>15, <1>16, <1>17, <1>18 DEF StreamEdge

\* The invariant holds at the beginning.
LEMMA ChainInvInit ==
  ASSUME RealWidths, Init
  PROVE  ChainInv
<1>1. IInv
  BY InvInit
<1>2. Typed
  BY DEF Init, Typed, ChainFields, StreamFields, StorageFields, RealWidths
<1>3. CardRules /\ Errand /\ Walk /\ Places /\ Digits /\ Outcome /\ BytesRight /\ Aborts
  BY DEF Init, CardRules, Errand, Walk, Places, Digits, Outcome, BytesRight, Aborts, Waiting
<1> QED BY <1>1, <1>2, <1>3 DEF ChainInv

\* The invariant is kept by every edge.
LEMMA ChainInvStep ==
  ASSUME RealWidths, FatFits, ChainInv, [Edge]_vars
  PROVE  ChainInv'
<1>0. IInv'
  BY InvStep DEF ChainInv
<1>1. CASE Edge
  <2>1. volume' = volume /\ StorageEdge /\ CardEdge
    BY <1>1 DEF Edge
  <2>2. PICK abort, pause \in BOOLEAN :
          (abort => volume.user = "directory") /\ StreamEdge(abort, pause)
    BY <1>1 DEF Edge
  <2>3. CardActs
    BY <2>1, CardActing DEF ChainInv
  <2>4. StorageActs /\ StorageFields \cup {"sector"} \subseteq DOMAIN storage'
        /\ storage'.first \in FirstClusters \cup {0} /\ storage'.limit \in Nat
    BY <2>1, StorageActing DEF ChainInv
  <2>5. CardRules' /\ given' \in Nat /\ given' <= SectorBytes
    BY <2>3, CardRulesStep DEF ChainInv
  <2>6. Typed'
    <3>1. /\ ChainFields \subseteq DOMAIN stream'
          /\ stream'.cluster \in Nat /\ stream'.cluster_sector \in Nat /\ stream'.position \in Nat
          /\ stream'.remaining \in Nat /\ stream'.fat_value \in [0..3 -> Nat]
      BY <2>2, TypedKept
    <3>2. /\ volume.fat \in [Clusters -> FatEntries] /\ volume.spc \in Nat
          /\ volume.user \in {"directory", "file"}
      BY DEF ChainInv, Typed
    <3> QED BY <2>1, <2>4, <2>5, <3>1, <3>2 DEF Typed
  <2>7. Errand'
    BY <1>0, <2>1, <2>2, <2>3, <2>4, ErrandStep
  <2>8. Walk'
    BY <2>1, <2>2, <2>4, WalkStep
  <2>9. Places' /\ Digits'
    BY <2>1, <2>2, <2>3, PlacesStep, DigitsStep
  <2>10. Outcome'
    BY <2>1, <2>2, <2>3, <2>4, OutcomeStep
  <2>11. BytesRight'
    BY <2>1, <2>2, <2>4, BytesStep
  <2>12. Aborts'
    BY <2>1, <2>2, AbortsStep
  <2> QED BY <1>0, <2>5, <2>6, <2>7, <2>8, <2>9, <2>10, <2>11, <2>12 DEF ChainInv
<1>2. CASE UNCHANGED vars
  <2>1. UNCHANGED <<status, sector, given, event, volume, storage, stream>>
    BY <1>2 DEF vars, card
  <2>2. Typed' /\ CardRules' /\ Errand' /\ Aborts'
    BY <2>1 DEF ChainInv, Typed, CardRules, Errand, Aborts, Waiting, Sought, DataSector, FatSector
  <2>3. Walk' /\ Places' /\ Digits'
    BY <2>1 DEF ChainInv, Walk, Places, Digits, Chain, next_cluster, Entry, Digit, FatByteOffset, Begin, Got, More
  <2>4. Outcome' /\ BytesRight'
    <3>1. Chain' = Chain
      BY <2>1 DEF Chain, next_cluster, Entry
    <3>2. read_file(storage.limit)' <=> read_file(storage.limit)
      BY <2>1, <3>1 DEF read_file, cluster_chain, ClusterBytes
    <3>3. Finished' <=> Finished
      BY <2>1, <3>1 DEF Finished, ChainEnds, ClusterBytes
    <3>4. Excused' <=> Excused
      BY <2>1, <3>2 DEF Excused
    <3>5. BytesRight' <=> BytesRight
      BY <2>1, <3>1 DEF BytesRight, cluster_bytes, Place, ClusterBytes
    <3> QED BY <2>1, <3>3, <3>4, <3>5 DEF ChainInv, Outcome
  <2> QED BY <1>0, <2>2, <2>3, <2>4 DEF ChainInv
<1> QED BY <1>1, <1>2

(***************************************************************************)
(* The inductive invariant of the walk along a chain, for every FAT, every *)
(* cluster size, every file and every behaviour of the card.               *)
(***************************************************************************)
THEOREM ChainInvariant == RealWidths /\ FatFits => (Spec => []ChainInv)
<1> SUFFICES ASSUME RealWidths, FatFits PROVE Spec => []ChainInv
  OBVIOUS
<1>1. Init => ChainInv
  BY ChainInvInit
<1>2. ChainInv /\ [Edge]_vars => ChainInv'
  BY ChainInvStep
<1> QED BY <1>1, <1>2, PTL DEF Spec

(***************************************************************************)
(* A load that ends without error has shown the file to its length or a    *)
(* whole chain that ends, unless it was aborted (FINISH of the Verilog     *)
(* source).                                                                *)
(***************************************************************************)
THEOREM EndsHonestly == RealWidths /\ FatFits => (Spec => []EndIsHonest)
<1> SUFFICES ASSUME RealWidths, FatFits PROVE Spec => []EndIsHonest
  OBVIOUS
<1>1. ChainInv => EndIsHonest
  BY DEF ChainInv, Outcome, Finished, EndIsHonest
<1>2. Spec => []ChainInv
  BY ChainInvariant
<1> QED BY <1>1, <1>2, PTL

(***************************************************************************)
(* The stream and the reader of the host agree: byte for byte, and on      *)
(* every file that the host can read (tools/storage/fat32.py).             *)
(***************************************************************************)
THEOREM LoadsTheFile == RealWidths /\ FatFits => (Spec => []AgreesWithReference)
<1> SUFFICES ASSUME RealWidths, FatFits PROVE Spec => []AgreesWithReference
  OBVIOUS
<1>1. ASSUME ChainInv PROVE AgreesWithReference
  <2>1. BytesRight
    BY <1>1 DEF ChainInv
  <2>2. ASSUME stream.done, volume.user = "file", storage.limit # 0, NEW n \in 1..MaxClusters,
               n * ClusterBytes >= storage.limit, cluster_chain(n), read_file(storage.limit)
        PROVE  status = "failed" \/ (~stream.error /\ stream.position = storage.limit)
    <3>1. stream.error => status = "failed"
      BY <1>1, <2>2 DEF ChainInv, Outcome, Excused
    <3>2. CASE ~stream.error
      <4>1. Finished /\ ~stream.abort_pending
        BY <1>1, <2>2, <3>2 DEF ChainInv, Outcome, Aborts
      <4>2. /\ stream.position \in Nat /\ storage.limit \in Nat /\ ClusterBytes \in Nat
            /\ stream.seen \in Nat /\ n \in Nat /\ stream.limited
            /\ stream.position <= storage.limit
        BY <1>1, <2>2, <4>1 DEF ChainInv, Typed, Finished, ClusterBytes
      <4>3. CASE ChainEnds(stream.seen)
        <5>1. ~Link(Chain[stream.seen])
          <6>1. Chain[stream.seen] \in Nat
            BY <1>1, <4>1, ChainTypes DEF ChainInv, Finished
          <6> QED BY <4>3, <6>1 DEF ChainEnds, Link
        <5>2. n <= stream.seen
          <6> SUFFICES ASSUME stream.seen < n PROVE FALSE
            BY <4>2
          <6>1. stream.seen \in 0..n - 1
            BY <4>2
          <6> QED BY <2>2, <5>1, <6>1 DEF cluster_chain
        <5>3. n * ClusterBytes <= stream.seen * ClusterBytes
          BY <4>2, <5>2, Multiples
        <5>4. stream.position = stream.seen * ClusterBytes
          BY <4>3 DEF ChainEnds
        <5> DEFINE a == n * ClusterBytes
                   b == stream.seen * ClusterBytes
        <5>5. a \in Nat /\ b \in Nat /\ a <= b /\ a >= storage.limit /\ stream.position = b
          BY <2>2, <4>2, <5>3, <5>4
        <5> HIDE DEF a, b
        <5> QED BY <3>2, <4>2, <5>5
      <4> QED BY <3>2, <4>1, <4>3 DEF Finished
    <3> QED BY <3>1, <3>2
  <2>3. LoadsWhatIsReadable
    BY <2>2 DEF LoadsWhatIsReadable, read_file
  <2> QED BY <2>1, <2>3 DEF AgreesWithReference
<1>2. Spec => []ChainInv
  BY ChainInvariant
<1> QED BY <1>1, <1>2, PTL
=============================================================================
