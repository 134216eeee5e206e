---------------------------- MODULE Spec256Host ----------------------------
(***************************************************************************)
(* The host side of a Spec256 machine and the machine it talks to: a game  *)
(* pack is built (gamepack.py), checked and sent (load_gamepack.py), key   *)
(* presses are sent one by one (send_input.py), and a keyboard is bridged  *)
(* (keyboard_bridge.py), all over one serial line.  On the machine the     *)
(* line feeds two readers at once: the pack loader, for which a byte "N"   *)
(* starts a new pack, and the live inputs.  Status lines come back.        *)
(*                                                                         *)
(* The line may lose a byte, a tool may be killed, and packs are damaged   *)
(* between being built and being sent.                                     *)
(***************************************************************************)
EXTENDS KeyboardBridge, GamePack

CONSTANTS
  KeyCounts,       \* how many launch keys a pack asks for
  Room,            \* what the serial driver takes before it blocks
  MaxSends,        \* bounds: packs sent,
  MaxLost,         \* bytes lost by the line,
  MaxEvents,       \* inputs made by a bridge that found the machine neutral,
  MaxStray,        \* and inputs made otherwise,
  Codes, Bits      \* with these keys of the host and these directions

ASSUME HostAssumption ==
  KeyCounts \subseteq Nat /\ Room \in Nat /\ Room > 2
  /\ {MaxSends, MaxLost, MaxEvents, MaxStray} \subseteq Nat
  /\ Codes \subseteq Int /\ Bits \subseteq KEMPSTON_BITS

VARIABLES
  host,            \* the tool that runs, what it still has to write, what it said
  bridge,          \* the keyboard bridge: its InputState and its unwritten frames
  wire,            \* bytes on their way to the machine
  inbox,           \* status lines the host has not read
  loader, input,   \* the machine: nexttang_spec256_game_loader, _runtime_input
  ghost            \* history, for the properties

hostVars == <<host, bridge, wire, inbox, loader, input, ghost>>

(***************************************************************************)
(* The machine.                                                            *)
(***************************************************************************)
LoaderReset ==
  [state |-> "HEADER", header |-> <<>>, payload |-> <<>>, ready |-> FALSE, fault |-> FALSE]

Faulted == [loader EXCEPT !.state = "FAULT", !.fault = TRUE]

\* Of a header that is bad already only the length matters.
Normal(header) ==
  IF header[1] = N /\ (Len(header) > 1 => header[2] = MAGIC) THEN header
  ELSE [i \in DOMAIN header |-> 0]

HeaderByte(byte) ==
  LET header == Normal(Append(loader.header, byte))
  IN  CASE Len(header) < HEADER_SIZE -> [loader EXCEPT !.header = header]
        [] Len(header) = HEADER_SIZE /\ HeaderGood(header) ->
             [loader EXCEPT !.header = header, !.state = "PAYLOAD"]
        [] OTHER -> Faulted

PayloadByte(byte) ==
  LET payload == Append(loader.payload, byte)
  IN  CASE Len(payload) < loader.header[3] -> [loader EXCEPT !.payload = payload]
        [] Len(payload) = loader.header[3] /\ crc32(payload) = loader.header[4] ->
             [loader EXCEPT !.payload = payload, !.state = "DONE", !.ready = TRUE]
        [] OTHER -> [Faulted EXCEPT !.payload = payload]

\* Mutant: a new pack is looked for only after a complete one.
RestartAfterDone(byte) ==
  IF byte = N /\ loader.state = "DONE" THEN [LoaderReset EXCEPT !.header = <<N>>] ELSE loader
Restart(byte) ==
  IF byte = N THEN [LoaderReset EXCEPT !.header = <<N>>] ELSE loader

LoaderByte(byte) ==
  CASE loader.state = "HEADER" -> HeaderByte(byte)
    [] loader.state = "PAYLOAD" -> PayloadByte(byte)
    [] OTHER -> Restart(byte)

InputReset == [state |-> "COMMAND", key_index |-> 0, keys |-> {}, joystick |-> 0]

InputByte(byte) ==
  CASE input.state = "COMMAND" ->
         [input EXCEPT !.state = CASE byte = 75 -> "KEY" [] byte = 74 -> "JOYSTICK"
                                   [] OTHER -> "COMMAND"]
    [] input.state = "KEY" -> [input EXCEPT !.key_index = byte, !.state = "KEY_VALUE"]
    [] input.state = "KEY_VALUE" ->
         [input EXCEPT !.state = "COMMAND",
                       !.keys = CASE byte = 1 /\ input.key_index < 40 -> @ \union {input.key_index}
                                  [] byte = 0 -> @ \ {input.key_index}
                                  [] OTHER -> @]
    [] OTHER -> [input EXCEPT !.joystick = byte % 32, !.state = "COMMAND"]

MachineByte ==
  /\ wire # <<>>
  /\ LET next == LoaderByte(Head(wire))
     IN  /\ loader' = next
         /\ input' = IF loader.ready /\ next.ready THEN InputByte(Head(wire)) ELSE InputReset
  /\ wire' = Tail(wire)
  /\ UNCHANGED <<host, bridge, inbox, ghost>>

LoseByte ==
  /\ wire # <<>> /\ ghost.lost < MaxLost
  /\ wire' = Tail(wire)
  /\ ghost' = [ghost EXCEPT !.lost = @ + 1, !.clean = FALSE]
  /\ UNCHANGED <<host, bridge, inbox, loader, input>>

\* The transmitter is held in reset while a pack is awaited and none has failed.
Reporting == loader.ready \/ loader.fault

StatusLine ==
  /\ Reporting /\ host.tool \in {"send", "wait"} /\ inbox = <<>>
  /\ inbox' = Append(inbox, [p |-> loader.ready, y |-> loader.fault])
  /\ UNCHANGED <<host, bridge, wire, loader, input, ghost>>

(***************************************************************************)
(* gamepack.py, what may happen to the file it wrote, and load_gamepack.py.*)
(***************************************************************************)
Packs ==
  UNION {{build_gamepack(payload, backgrounds, keys) : payload \in Payloads(backgrounds),
                                                       keys \in {k \in KeyCounts : Buildable(backgrounds, k)}} :
           backgrounds \in {b \in 0 .. MAX_BACKGROUNDS + 1 : Buildable(b, 0)}}

Damaged(pack) ==
  {SubSeq(pack, 1, length) : length \in 1 .. Len(pack) - 1}
    \union {Append(pack, 0)}
    \union {[pack EXCEPT ![i] = IF @ = 0 THEN 1 ELSE @ - 1] : i \in DOMAIN pack}

LineIdle == host.tool = "none" /\ wire = <<>>

\* A loader that is in the middle of a pack takes the new one for its rest.
Midway == loader.state = "PAYLOAD" \/ (loader.state = "HEADER" /\ loader.header # <<>>)

Load ==
  /\ LineIdle /\ ghost.sends < MaxSends
  /\ \E pack \in Packs : \E image \in Damaged(pack) \union {pack} :
       /\ host' = IF parse_gamepack(image)
                  THEN [tool |-> "send", left |-> image, content |-> image, result |-> "none"]
                  ELSE [host EXCEPT !.content = <<>>, !.result = "invalid"]
       /\ ghost' = [ghost EXCEPT !.sends = @ + 1, !.midway = Midway, !.clean = FALSE,
                                 !.intact = (image = pack)]
  /\ inbox' = <<>>
  /\ UNCHANGED <<bridge, wire, loader, input>>

SendChunk ==
  /\ host.tool = "send" /\ host.left # <<>>
  /\ \E count \in 1 .. Len(host.left) :
       /\ Len(wire) + count <= Room
       /\ wire' = wire \o SubSeq(host.left, 1, count)
       /\ host' = [host EXCEPT !.left = SubSeq(@, count + 1, Len(@))]
  /\ UNCHANGED <<bridge, inbox, loader, input, ghost>>

\* Mutant: lines that came while the pack was being sent are kept.
Unflushed == inbox
Flushed == <<>>

\* tcdrain, and only then the flush of what has been received.
Drained ==
  /\ host.tool = "send" /\ host.left = <<>> /\ wire = <<>>
  /\ host' = [host EXCEPT !.tool = "wait"]
  /\ inbox' = Flushed
  /\ UNCHANGED <<bridge, wire, loader, input, ghost>>

Verdict(line) ==
  IF line.y THEN "rejected" ELSE IF line.p THEN "accepted" ELSE "none"

ReadStatus ==
  /\ host.tool = "wait" /\ inbox # <<>>
  /\ LET verdict == Verdict(Head(inbox))
     IN  host' = IF verdict = "none" THEN host
                 ELSE [host EXCEPT !.tool = "none", !.result = verdict]
  /\ inbox' = Tail(inbox)
  /\ UNCHANGED <<bridge, wire, loader, input, ghost>>

\* A line takes 3.6 s to come and the timeout is 4 s: it strikes only when none comes.
StatusTimeout ==
  /\ host.tool = "wait" /\ inbox = <<>> /\ ~Reporting
  /\ host' = [host EXCEPT !.tool = "none", !.result = "timeout"]
  /\ UNCHANGED <<bridge, wire, inbox, loader, input, ghost>>

(***************************************************************************)
(* send_input.py: one frame, of a key or of the whole joystick.            *)
(***************************************************************************)
Opposing(bits) == {1, 2} \subseteq bits \/ {4, 8} \subseteq bits

SendInput ==
  /\ LineIdle
  /\ \E frame \in {key_frame(name, pressed) : name \in Names, pressed \in BOOLEAN}
                  \union {joystick_frame(bits) : bits \in {b \in SUBSET Bits : ~Opposing(b)}} :
       wire' = frame
  /\ ghost' = [ghost EXCEPT !.events = @ + 1, !.clean = FALSE]
  /\ ghost.events < MaxStray
  /\ UNCHANGED <<host, bridge, inbox, loader, input>>

(***************************************************************************)
(* keyboard_bridge.py.  An event is handled and its frames written before  *)
(* the next is looked at; only Ctrl-C comes in between.                    *)
(***************************************************************************)
Closed == [state |-> InputState, frames |-> <<>>]
Neutral == loader.ready /\ input = InputReset

StartBridge ==
  /\ LineIdle
  /\ host' = [host EXCEPT !.tool = "bridge"]
  /\ bridge' = Closed
  /\ ghost' = [ghost EXCEPT !.clean = Neutral, !.down = {}, !.unwritten = {}]
  /\ UNCHANGED <<wire, inbox, loader, input>>

KeyEvent ==
  /\ host.tool = "bridge" /\ bridge.frames = <<>>
  /\ ghost.events < IF ghost.clean THEN MaxEvents ELSE MaxStray
  /\ \E code \in Codes, value \in 0 .. 2 :
       /\ bridge' = handle(bridge.state, code, value)
       /\ ghost' = [ghost EXCEPT !.events = @ + 1,
                                 !.down = CASE value = 1 -> @ \union {code}
                                            [] value = 0 -> @ \ {code}
                                            [] OTHER -> @]
  /\ UNCHANGED <<host, wire, inbox, loader, input>>

Written(frame) == Len(wire) + Len(frame) <= Room /\ wire' = wire \o frame

WriteFrame ==
  /\ host.tool \in {"bridge", "release"} /\ bridge.frames # <<>>
  /\ Written(Head(bridge.frames))
  /\ bridge' = [bridge EXCEPT !.frames = Tail(@)]
  /\ UNCHANGED <<host, inbox, loader, input, ghost>>

\* The keys whose release handle has returned and nobody has written.
Unwritten == {bridge.frames[i][2] : i \in {j \in DOMAIN bridge.frames :
                bridge.frames[j][1] = 75 /\ bridge.frames[j][3] = 0}}

\* ESC, read like any other event, and Ctrl-C, at any moment: the finally clause.
Leave ==
  /\ host.tool = "bridge"
  /\ host' = [host EXCEPT !.tool = "release"]
  /\ bridge' = [state |-> InputState, frames |-> release_all(bridge.state)]
  /\ ghost' = [ghost EXCEPT !.unwritten = Unwritten, !.down = {}]
  /\ UNCHANGED <<wire, inbox, loader, input>>

Close ==
  /\ host.tool = "release" /\ bridge.frames = <<>> /\ wire = <<>>
  /\ host' = [host EXCEPT !.tool = "none"]
  /\ UNCHANGED <<bridge, wire, inbox, loader, input, ghost>>

\* A tool is killed, or its adapter is pulled out: every write fails from then on.
Break ==
  /\ host.tool # "none"
  /\ host' = IF host.tool \in {"send", "wait"}
             THEN [tool |-> "none", left |-> <<>>, content |-> <<>>, result |-> "broken"]
             ELSE [host EXCEPT !.tool = "none"]
  /\ bridge' = Closed
  /\ \E rest \in {wire, <<>>} : wire' = rest
  /\ ghost' = [ghost EXCEPT !.clean = FALSE, !.down = {}, !.unwritten = {}]
  /\ UNCHANGED <<inbox, loader, input>>

HostInit ==
  /\ host = [tool |-> "none", left |-> <<>>, content |-> <<>>, result |-> "none"]
  /\ bridge = Closed
  /\ wire = <<>> /\ inbox = <<>>
  /\ loader = LoaderReset /\ input = InputReset
  /\ ghost = [lost |-> 0, sends |-> 0, intact |-> TRUE, events |-> 0, midway |-> FALSE, clean |-> FALSE,
              down |-> {}, unwritten |-> {}]

HostNext ==
  \/ MachineByte \/ LoseByte \/ StatusLine
  \/ Load \/ SendChunk \/ Drained \/ ReadStatus \/ StatusTimeout
  \/ SendInput
  \/ StartBridge \/ KeyEvent \/ WriteFrame \/ Leave \/ Close
  \/ Break

HostSpec == HostInit /\ [][HostNext]_hostVars
-----------------------------------------------------------------------------
(***************************************************************************)
(* A pack that was reported accepted is in the machine, to the last byte:  *)
(* not the pack of an earlier session whose status was still on its way,   *)
(* and not one put together from two transmissions.                        *)
(***************************************************************************)
AcceptedIsThisPack ==
  host.result = "accepted" /\ ~(ghost.midway /\ ghost.lost > 0) =>
    /\ loader.ready
    /\ loader.header = HeaderOf(host.content) /\ loader.payload = PayloadOf(host.content)

(***************************************************************************)
(* A pack is refused for a reason: the file was damaged, the line lost a   *)
(* byte, or the machine still waited for the rest of a broken transfer (or *)
(* of stray bytes that looked like one), whose place the new pack then     *)
(* took.                                                                   *)
(***************************************************************************)
RefusedForAReason ==
  /\ host.result = "invalid" => ~ghost.intact
  /\ host.result \in {"rejected", "timeout"} => ghost.midway \/ ghost.lost > 0

(***************************************************************************)
(* While the bridge runs, the machine holds what the host's keys stand     *)
(* for: a key or direction is down exactly as long as one of the keys that *)
(* stand for it is, whatever the order they go down and up in.             *)
(***************************************************************************)
HeldOnTheMachine ==
  host.tool = "bridge" /\ ghost.clean /\ bridge.frames = <<>> /\ wire = <<>> =>
    /\ input.keys = UNION {ToSet(key_names(code)) : code \in ghost.down}
    /\ input.joystick = mask(UNION {controls(code) : code \in ghost.down})

(***************************************************************************)
(* "Never leave a key or a direction latched on the machine": after the    *)
(* bridge the machine is neutral.                                          *)
(***************************************************************************)
NothingLeftLatched ==
  LineIdle /\ ghost.clean => input.keys = {} /\ input.joystick = 0

(***************************************************************************)
(* What holds of it: after the bridge the machine is neutral, except for a *)
(* key whose release Ctrl-C caught between handle and the write.           *)
(***************************************************************************)
NeutralAfterwards ==
  LineIdle /\ ghost.clean => input.keys \subseteq ghost.unwritten /\ input.joystick = 0
=============================================================================
