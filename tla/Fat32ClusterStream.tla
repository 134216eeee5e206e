-------------------------- MODULE Fat32ClusterStream --------------------------
(***************************************************************************)
(* rtl/storage/nexttang_fat32_cluster_stream.v, between the storage        *)
(* service that forwards its requests (rtl/storage/nexttang_fat32_storage  *)
(* .v, READ_DIRECTORY and READ_FILE) and a card reader that keeps the      *)
(* promise of SectorReader.                                                *)
(*                                                                         *)
(* The directory scanner between stream and storage service is abstracted  *)
(* to a client that asks for whole chains and may abort them at any edge.  *)
(*                                                                         *)
(* All three are clocked together: a step is an edge of the clock at which *)
(* each reads what the registers of the others held before it.  Widths are *)
(* scaled: a sector has SectorBytes bytes, a byte one of Base values, and  *)
(* a FAT entry EntryBytes bytes of which the part above Mask is dropped.   *)
(***************************************************************************)
EXTENDS Naturals, FiniteSetsExt

CONSTANTS
  SectorBytes,      \* 512
  EntryBytes,       \* 4
  Base,             \* 256
  Mask,             \* 2^28: an entry counts modulo this
  BadCluster,       \* 32'h0ffffff7
  EndOfChain,       \* 32'h0ffffff8, and everything from it to Mask
  Clusters,         \* the clusters of the volume, from 2
  FatEntries,       \* what the entries of its FAT hold
  FatLba, DataLba,  \* where FAT and clusters begin
  ClusterSizes,     \* sectors_per_cluster
  FirstClusters, Limits,   \* what a client asks for
  MaxClusters       \* MAX_CLUSTERS

ASSUME StreamAssumption ==
  /\ {SectorBytes, EntryBytes, Base, Mask, MaxClusters, DataLba} \subseteq Nat \ {0}
  /\ Clusters \cup FatEntries \cup ClusterSizes \cup FirstClusters \cup Limits \subseteq Nat
  /\ {BadCluster, EndOfChain, FatLba} \subseteq Nat

VARIABLES
  status, sector, given, event,   \* the card reader
  volume,    \* what is on the card, and which instance of the stream this is
  storage,   \* the registers of the storage service
  stream     \* the registers of the stream

card == <<status, sector, given, event>>
vars == <<card, volume, storage, stream>>

Card == INSTANCE SectorReader WITH Sectors <- Nat

(***************************************************************************)
(* The volume.  The bytes of the FAT are the digits of its entries, lowest *)
(* first; a byte of a cluster is known by its place on the card.           *)
(***************************************************************************)
EntriesPerSector == SectorBytes \div EntryBytes

Entry(cluster) == IF cluster \in Clusters THEN volume.fat[cluster] ELSE 0

Content(lba, offset) ==
  IF lba >= DataLba THEN lba * SectorBytes + offset
  ELSE LET cluster == (lba - FatLba) * EntriesPerSector + offset \div EntryBytes
       IN  (Entry(cluster) \div Base^(offset % EntryBytes)) % Base

\* The place of byte offset of sector k of a cluster.
Place(cluster, k, offset) ==
  (DataLba + (cluster - 2) * volume.spc + k) * SectorBytes + offset

(***************************************************************************)
(* The stream.  Clocked is what every edge does before the state is looked *)
(* at: pulses drop, an error of the card while busy leads to FAILED, an    *)
(* abort is remembered.  What a state assigns comes after it and wins.     *)
(***************************************************************************)
\* Mutant: the request is not a pulse.
ClockedHeld(abort) ==
  [stream EXCEPT
     !.valid = FALSE, !.done = FALSE,
     !.state = IF status = "failed" /\ stream.busy THEN "FAILED" ELSE @,
     !.abort_pending = @ \/ (abort /\ stream.busy)]

\* Mutant: an error of the card is not looked at.
ClockedDeaf(abort) ==
  [stream EXCEPT
     !.sector_start = FALSE, !.valid = FALSE, !.done = FALSE,
     !.abort_pending = @ \/ (abort /\ stream.busy)]

Clocked(abort) ==
  [stream EXCEPT
     !.sector_start = FALSE, !.valid = FALSE, !.done = FALSE,
     !.state = IF status = "failed" /\ stream.busy THEN "FAILED" ELSE @,
     !.abort_pending = @ \/ (abort /\ stream.busy)]

Aborted(abort) == abort \/ stream.abort_pending

Idle(abort) ==
  /\ stream.state = "IDLE" /\ ~storage.go
  /\ stream' = Clocked(abort)

Refuse(abort) ==
  /\ stream.state = "IDLE" /\ storage.go
  /\ storage.first < 2 \/ volume.spc = 0
  /\ stream' = [Clocked(abort) EXCEPT !.error = TRUE, !.done = TRUE]

Start(abort) ==
  /\ stream.state = "IDLE" /\ storage.go
  /\ ~(storage.first < 2 \/ volume.spc = 0)
  /\ stream' = [Clocked(abort) EXCEPT
                  !.cluster = storage.first, !.cluster_sector = 0,
                  !.remaining = storage.limit, !.limited = storage.limit # 0,
                  !.position = 0, !.seen = 1, !.offset = 0,
                  !.busy = TRUE, !.error = FALSE, !.abort_pending = FALSE,
                  !.state = "DATA_REQUEST"]

AskSector(registers, lba, next) ==
  [registers EXCEPT !.sector_start = TRUE, !.lba = lba, !.state = next]

DataRequest(abort, pause) ==
  /\ stream.state = "DATA_REQUEST"
  /\ stream' = IF Aborted(abort) THEN [Clocked(abort) EXCEPT !.state = "FINISH"]
               ELSE IF status = "ready" /\ ~pause
               THEN AskSector(Clocked(abort),
                      DataLba + (stream.cluster - 2) * volume.spc + stream.cluster_sector,
                      "DATA_WAIT")
               ELSE Clocked(abort)

\* Mutant: the limit is not looked at while a sector arrives.
DataByteUnlimited(abort) ==
  /\ stream.state = "DATA_WAIT" /\ event # "done"
  /\ stream' = IF event = "byte"
               THEN [Clocked(abort) EXCEPT
                       !.byte = Content(sector, given - 1), !.valid = TRUE,
                       !.offset = stream.position, !.position = @ + 1,
                       !.remaining = IF stream.limited /\ @ > 0 THEN @ - 1 ELSE @]
               ELSE Clocked(abort)

DataByte(abort) ==
  /\ stream.state = "DATA_WAIT" /\ event # "done"
  /\ stream' = IF event = "byte" /\ (~stream.limited \/ stream.remaining # 0)
               THEN [Clocked(abort) EXCEPT
                       !.byte = Content(sector, given - 1), !.valid = TRUE,
                       !.offset = stream.position, !.position = @ + 1,
                       !.remaining = IF stream.limited THEN @ - 1 ELSE @]
               ELSE Clocked(abort)

\* The reader never shows the last byte together with done, so that the code's
\* second way out (one byte remaining, and here it is) does not occur.
DataDone(abort) ==
  /\ stream.state = "DATA_WAIT" /\ event = "done"
  /\ stream' = IF Aborted(abort) \/ (stream.limited /\ stream.remaining = 0)
               THEN [Clocked(abort) EXCEPT !.state = "FINISH"]
               ELSE IF stream.cluster_sector + 1 < volume.spc
               THEN [Clocked(abort) EXCEPT !.cluster_sector = @ + 1,
                                           !.state = "DATA_REQUEST"]
               ELSE [Clocked(abort) EXCEPT !.fat_value = [k \in DOMAIN @ |-> 0],
                                           !.state = "FAT_REQUEST"]

FatRequest(abort) ==
  /\ stream.state = "FAT_REQUEST"
  /\ stream' = IF Aborted(abort) THEN [Clocked(abort) EXCEPT !.state = "FINISH"]
               ELSE IF status = "ready"
               THEN AskSector(Clocked(abort),
                      FatLba + stream.cluster \div EntriesPerSector, "FAT_WAIT")
               ELSE Clocked(abort)

FatByteOffset == (stream.cluster % EntriesPerSector) * EntryBytes

FatByte(abort) ==
  /\ stream.state = "FAT_WAIT" /\ event # "done"
  /\ LET k == given - 1 - FatByteOffset
     IN  stream' = IF /\ event = "byte"
                      /\ given - 1 >= FatByteOffset /\ given - 1 < FatByteOffset + EntryBytes
                   THEN [Clocked(abort) EXCEPT !.fat_value[k] = Content(sector, given - 1)]
                   ELSE Clocked(abort)

\* What the captured bytes say, without the reserved bits.
NextCluster ==
  MapThenSumSet(LAMBDA k : stream.fat_value[k] * Base^k, DOMAIN stream.fat_value) % Mask

\* Mutant: the next cluster is entered where the last one was left.
FollowSectorKept(abort) ==
  stream' = IF Aborted(abort) \/ NextCluster >= EndOfChain
            THEN [Clocked(abort) EXCEPT !.state = "FINISH"]
            ELSE IF NextCluster < 2 \/ NextCluster = BadCluster \/ stream.seen >= MaxClusters
            THEN [Clocked(abort) EXCEPT !.state = "FAILED"]
            ELSE [Clocked(abort) EXCEPT !.cluster = NextCluster,
                                        !.seen = @ + 1, !.state = "DATA_REQUEST"]

\* Mutant: a bad link is taken for the end of the chain.
FollowBadAsEnd(abort) ==
  stream' = IF Aborted(abort) \/ NextCluster >= BadCluster
            THEN [Clocked(abort) EXCEPT !.state = "FINISH"]
            ELSE IF NextCluster < 2 \/ stream.seen >= MaxClusters
            THEN [Clocked(abort) EXCEPT !.state = "FAILED"]
            ELSE [Clocked(abort) EXCEPT !.cluster = NextCluster, !.cluster_sector = 0,
                                        !.seen = @ + 1, !.state = "DATA_REQUEST"]

\* The end of the chain, a link that leads nowhere, or the next cluster.
Follow(abort) ==
  stream' = IF Aborted(abort) \/ NextCluster >= EndOfChain
            THEN [Clocked(abort) EXCEPT !.state = "FINISH"]
            ELSE IF NextCluster < 2 \/ NextCluster = BadCluster \/ stream.seen >= MaxClusters
            THEN [Clocked(abort) EXCEPT !.state = "FAILED"]
            ELSE [Clocked(abort) EXCEPT !.cluster = NextCluster, !.cluster_sector = 0,
                                        !.seen = @ + 1, !.state = "DATA_REQUEST"]

FatDone(abort) ==
  /\ stream.state = "FAT_WAIT" /\ event = "done"
  /\ Follow(abort)

Finish(abort) ==
  /\ stream.state = "FINISH"
  /\ stream' = [Clocked(abort) EXCEPT !.busy = FALSE, !.done = TRUE, !.state = "IDLE"]

Fail(abort) ==
  /\ stream.state = "FAILED"
  /\ stream' = [Clocked(abort) EXCEPT !.busy = FALSE, !.error = TRUE,
                                      !.done = TRUE, !.state = "IDLE"]

StreamEdge(abort, pause) ==
  \/ Idle(abort) \/ Refuse(abort) \/ Start(abort)
  \/ DataRequest(abort, pause) \/ DataByte(abort) \/ DataDone(abort)
  \/ FatRequest(abort) \/ FatByte(abort) \/ FatDone(abort)
  \/ Finish(abort) \/ Fail(abort)

(***************************************************************************)
(* The storage service takes one operation at a time; a request of the     *)
(* stream reaches the card one edge later, through its own register.       *)
(***************************************************************************)
Offer(first, limit) ==
  /\ storage.state = "IDLE"
  /\ storage' = [storage EXCEPT !.state = "READ", !.go = TRUE, !.read_start = FALSE,
                                !.first = first, !.limit = limit]

Rest ==
  /\ storage.state = "IDLE"
  /\ storage' = [storage EXCEPT !.go = FALSE, !.read_start = FALSE]

Forward ==
  /\ storage.state = "READ"
  /\ storage' = [storage EXCEPT
                   !.go = FALSE, !.read_start = stream.sector_start,
                   !.sector = IF stream.sector_start THEN stream.lba ELSE @,
                   !.state = IF stream.error THEN "FAILED"
                             ELSE IF stream.done THEN "IDLE"
                             ELSE @]

Stay ==
  /\ storage.state = "FAILED"
  /\ storage' = [storage EXCEPT !.go = FALSE, !.read_start = FALSE]

\* The directory scanner asks for whole chains and may abort them; a file has
\* its length, may be paused, and is never aborted.
StorageEdge ==
  \/ \E first \in FirstClusters :
       \E limit \in IF volume.user = "directory" THEN {0} ELSE Limits : Offer(first, limit)
  \/ Rest \/ Forward \/ Stay

(***************************************************************************)
(* The card reader takes the request it is shown when it is ready, and     *)
(* goes on with the sector it reads in its own time.                       *)
(***************************************************************************)
CardTakes == Card!Accept(storage.sector)

CardMoves ==
  IF storage.read_start /\ status = "ready" THEN CardTakes
  ELSE IF status = "reading" THEN Card!ShowByte \/ Card!Finish \/ Card!Fail
  ELSE Card!Wait

CardEdge == CardMoves \/ (~(storage.read_start /\ status = "ready") /\ Card!Wait)

Edge ==
  /\ \E abort, pause \in BOOLEAN :
       /\ abort => volume.user = "directory"
       /\ pause => volume.user = "file"
       /\ StreamEdge(abort, pause)
  /\ StorageEdge
  /\ CardEdge
  /\ UNCHANGED volume

\* An edge at which the file is not paused and the card does not idle.
BusyEdge ==
  /\ \E abort \in BOOLEAN : (abort => volume.user = "directory") /\ StreamEdge(abort, FALSE)
  /\ StorageEdge
  /\ CardMoves
  /\ UNCHANGED volume

Init ==
  /\ status = "ready" /\ sector = 0 /\ given = 0 /\ event = "none"
  /\ volume \in [fat : [Clusters -> FatEntries], spc : ClusterSizes,
                 user : {"directory", "file"}]
  /\ storage = [state |-> "IDLE", go |-> FALSE, read_start |-> FALSE, sector |-> 0,
                first |-> 0, limit |-> 0]
  /\ stream = [state |-> "IDLE", cluster |-> 0, cluster_sector |-> 0, remaining |-> 0,
               limited |-> FALSE, seen |-> 0, fat_value |-> [k \in 0..EntryBytes - 1 |-> 0],
               abort_pending |-> FALSE, position |-> 0, sector_start |-> FALSE, lba |-> 0,
               byte |-> 0, offset |-> 0, valid |-> FALSE,
               busy |-> FALSE, done |-> FALSE, error |-> FALSE]

Spec == Init /\ [][Edge]_vars

\* The clock runs; neither the card nor the one who pauses stops for ever.
FairSpec == Spec /\ WF_vars(BusyEdge)
-----------------------------------------------------------------------------
TypeOK ==
  /\ status \in {"ready", "reading", "failed"} /\ sector \in Nat
  /\ given \in 0..SectorBytes /\ event \in {"none", "byte", "done"}
  /\ volume \in [fat : [Clusters -> FatEntries], spc : ClusterSizes,
                 user : {"directory", "file"}]
  /\ storage \in [state : {"IDLE", "READ", "FAILED"}, go : BOOLEAN, read_start : BOOLEAN,
                  sector : Nat, first : FirstClusters \cup {0},
                  limit : Limits \cup {0}]
  /\ stream \in [state : {"IDLE", "DATA_REQUEST", "DATA_WAIT", "FAT_REQUEST",
                          "FAT_WAIT", "FINISH", "FAILED"},
                 cluster : Nat, cluster_sector : Nat, remaining : Nat,
                 limited : BOOLEAN, seen : 0..MaxClusters,
                 fat_value : [0..EntryBytes - 1 -> Nat],
                 abort_pending : BOOLEAN, position : Nat, sector_start : BOOLEAN,
                 lba : Nat, byte : Nat, offset : Nat, valid : BOOLEAN,
                 busy : BOOLEAN, done : BOOLEAN, error : BOOLEAN]

(***************************************************************************)
(* The reader of the host, tools/storage/fat32.py, which the tests of the  *)
(* loader hold the stream against.  It walks a chain as it needs it,       *)
(* remembers the clusters it has visited, and wants a file in full.        *)
(***************************************************************************)
\* The link in the FAT; what next_cluster and cluster_lba raise an error for is not
\* a Link.
next_cluster(cluster) == Entry(cluster) % Mask

Link(cluster) == cluster >= 2 /\ cluster # BadCluster /\ cluster < EndOfChain

\* The cluster that follows n others.
Chain[n \in 0..MaxClusters] ==
  IF n = 0 THEN storage.first ELSE next_cluster(Chain[n - 1])

\* The reader visits n clusters without an error.
cluster_chain(n) ==
  /\ \A i \in 0..n - 1 : Link(Chain[i])
  /\ \A i, j \in 0..n - 1 : Chain[i] = Chain[j] => i = j

ClusterBytes == volume.spc * SectorBytes

\* The byte at an offset of the chain, sector after sector of its clusters.
cluster_bytes(offset) ==
  Place(Chain[offset \div ClusterBytes], (offset % ClusterBytes) \div SectorBytes,
        offset % SectorBytes)

\* The file is returned in full: its bytes are in clusters the reader reaches.
read_file(size) ==
  \E n \in 1..MaxClusters : n * ClusterBytes >= size /\ (n - 1) * ClusterBytes < size
                           /\ cluster_chain(n)

(***************************************************************************)
(* The two implementations agree.  A byte of the stream is the byte that   *)
(* the reader returns for its offset, whichever sectors and FAT entries    *)
(* were fetched for it, also in a load that follows another one; and a     *)
(* file that the reader returns is loaded to its length and without error, *)
(* unless the card fails.                                                  *)
(***************************************************************************)
BytesRight == stream.valid => stream.byte = cluster_bytes(stream.offset)

LoadsWhatIsReadable ==
  stream.done /\ volume.user = "file" /\ storage.limit # 0 /\ read_file(storage.limit) =>
    status = "failed" \/ (~stream.error /\ stream.position = storage.limit)

AgreesWithReference == BytesRight /\ LoadsWhatIsReadable

(***************************************************************************)
(* The bytes shown and the bytes that remain make up the length asked for: *)
(* a byte beyond it is never shown, though the sector is read to its end.  *)
(***************************************************************************)
LimitKept ==
  stream.busy /\ stream.limited => stream.position + stream.remaining = storage.limit

(***************************************************************************)
(* A load that ends without error has shown the file to its length or the  *)
(* whole of a chain that ends, unless it was aborted.                      *)
(***************************************************************************)
ChainEnds(clusters) ==
  /\ Chain[clusters] >= EndOfChain
  /\ stream.position = clusters * ClusterBytes

EndIsHonest ==
  stream.done /\ ~stream.error =>
    \/ stream.limited /\ stream.position = storage.limit
    \/ \E clusters \in 1..MaxClusters : ChainEnds(clusters)
    \/ stream.abort_pending

(***************************************************************************)
(* A request reaches the card, two registers later, while the card is      *)
(* still ready for it: one that comes too early would be ignored and       *)
(* waited for in vain.                                                     *)
(***************************************************************************)
NoRequestIgnored == storage.read_start => status = "ready"

(***************************************************************************)
(* The inductive invariant behind LimitKept and NoRequestIgnored.          *)
(* HandOff: who is at work on an operation, the storage service that has   *)
(* just offered it, the stream, or the storage service that is about to    *)
(* see how it ended.  Handshake: of stream, storage and card at most one   *)
(* holds the request for a sector, and the stream waits meanwhile.         *)
(***************************************************************************)
HandOff ==
  /\ stream.busy <=> stream.state # "IDLE"
  /\ stream.busy => storage.state = "READ" /\ ~storage.go /\ ~stream.done /\ ~stream.error
  /\ storage.go => storage.state = "READ" /\ ~stream.busy /\ ~stream.done /\ ~stream.error
  /\ storage.state = "IDLE" => ~stream.done /\ ~stream.error

Waiting == stream.state \in {"DATA_WAIT", "FAT_WAIT"}

Handshake ==
  /\ stream.sector_start \/ storage.read_start =>
       status = "ready" /\ event # "done" /\ Waiting
  /\ ~(stream.sector_start /\ storage.read_start)
  /\ status = "reading" => Waiting
  /\ event = "done" => status = "ready" /\ Waiting

StreamInv == HandOff /\ Handshake /\ LimitKept

(***************************************************************************)
(* Every operation ends, also on a FAT whose chain is a cycle.             *)
(***************************************************************************)
OperationEnds == storage.state = "READ" ~> storage.state # "READ"

(***************************************************************************)
(* The comment of the module (l.6-8): with a byte limit the stream stops   *)
(* after exactly that many bytes.                                          *)
(***************************************************************************)
ExactlyLimit ==
  stream.done /\ ~stream.error /\ stream.limited => stream.position = storage.limit
=============================================================================
