------------------------------ MODULE GamePack ------------------------------
(***************************************************************************)
(* tools/spec256/gamepack.py: the header of a game pack and the checks a   *)
(* pack passes before it is sent.  The header is cut down to the fields    *)
(* that decide anything; magic, version and header size are one field, and *)
(* the checksum, which sees every change of the payload, is a number that  *)
(* stands for it.                                                          *)
(***************************************************************************)
EXTENDS Integers, Sequences, SequencesExt

CONSTANTS
  PayloadBytes,        \* the bytes payloads are made of
  BASE_PAYLOAD_SIZE,   \* boot image, memories, planes and palette
  BACKGROUND_SIZE,
  MAX_BACKGROUNDS      \* 8

N == 78                \* the first byte of the magic, and the machine's reset command
MAGIC == 1             \* the rest of the magic, the version and the header size
HEADER_SIZE == 6
MAX_KEYS == 4

ASSUME PackAssumption ==
  /\ PayloadBytes \subseteq 0 .. 255
  /\ BASE_PAYLOAD_SIZE \in Nat \ {0} /\ BACKGROUND_SIZE \in Nat \ {0}
  /\ MAX_BACKGROUNDS \in Nat

payload_size_for(backgrounds) == BASE_PAYLOAD_SIZE + backgrounds * BACKGROUND_SIZE

\* Different for different payloads, and no byte.
crc32(payload) == FoldLeft(LAMBDA sum, byte : 256 * sum + byte, 1, payload) + 256

\* Half a megabyte of memory images has an "N" somewhere.
Payloads(backgrounds) ==
  {payload \in [1 .. payload_size_for(backgrounds) -> PayloadBytes] : N \in Range(payload)}

Buildable(backgrounds, keys) == backgrounds <= MAX_BACKGROUNDS /\ keys <= MAX_KEYS

\* Mutant: the size without the backgrounds.
build_gamepack_base(payload, backgrounds, keys) ==
  <<N, MAGIC, BASE_PAYLOAD_SIZE, crc32(payload), keys, backgrounds>> \o payload

build_gamepack(payload, backgrounds, keys) ==
  <<N, MAGIC, payload_size_for(backgrounds), crc32(payload), keys, backgrounds>> \o payload

(***************************************************************************)
(* What parse_gamepack demands of a header, and the machine with it; the   *)
(* machine's loader makes the same checks in registers.                    *)
(***************************************************************************)
HeaderGood(header) ==
  /\ header[1] = N /\ header[2] = MAGIC
  /\ header[6] <= MAX_BACKGROUNDS /\ header[3] = payload_size_for(header[6])
  /\ header[5] <= MAX_KEYS

HeaderOf(image) == SubSeq(image, 1, HEADER_SIZE)
PayloadOf(image) == SubSeq(image, HEADER_SIZE + 1, Len(image))

parse_gamepack(image) ==
  /\ Len(image) >= HEADER_SIZE
  /\ HeaderGood(HeaderOf(image))
  /\ Len(image) = HEADER_SIZE + image[3]
  /\ crc32(PayloadOf(image)) = image[4]
=============================================================================
