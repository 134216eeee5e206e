--------------------------- MODULE KeyboardBridge ---------------------------
(***************************************************************************)
(* tools/spec256/keyboard_bridge.py, class InputState: which Spectrum keys *)
(* and joystick directions a set of held host keys stands for, and which   *)
(* frames tell the machine about a change.  Several host keys stand for    *)
(* one Spectrum key and one host key for a chord, so names are counted.    *)
(* A Spectrum key is its index in the matrix, a direction its bit.         *)
(***************************************************************************)
EXTENDS Integers, Sequences, SequencesExt

CAPS_SHIFT == 0
ZERO == 20
SYMBOL_SHIFT == 36

\* The part of the table where host keys share a name; 14 is the backspace chord.
KEYCODES ==
  [code \in {11, 14, 29, 42, 54} |->
     CASE code = 11 -> <<ZERO>>
       [] code = 14 -> <<CAPS_SHIFT, ZERO>>
       [] code = 42 -> <<CAPS_SHIFT>>
       [] OTHER -> <<SYMBOL_SHIFT>>]

KEMPSTON ==
  [code \in {56, 100, 105, 106} |-> CASE code = 106 -> 1 [] code = 105 -> 2 [] OTHER -> 16]
KEMPSTON_BITS == {1, 2, 4, 8, 16}

Names == {CAPS_SHIFT, ZERO, SYMBOL_SHIFT}
KnownCodes == DOMAIN KEYCODES \union DOMAIN KEMPSTON

key_names(code) == IF code \in DOMAIN KEYCODES THEN KEYCODES[code] ELSE <<>>
controls(code) == IF code \in DOMAIN KEMPSTON THEN {KEMPSTON[code]} ELSE {}

\* 75 is "K", 74 is "J".
key_frame(name, pressed) == <<75, name, IF pressed THEN 1 ELSE 0>>
mask(bits) ==
  LET bit(b) == IF b \in bits THEN b ELSE 0 IN bit(1) + bit(2) + bit(4) + bit(8) + bit(16)
joystick_frame(joystick) == <<74, mask(joystick)>>

InputState ==
  [pressed_codes |-> {}, key_references |-> [name \in Names |-> 0],
   joystick_references |-> [bit \in KEMPSTON_BITS |-> 0],
   key_order |-> <<>>, joystick |-> {}]

\* The elements of s that are in keep, in their order.
among(s, keep) ==
  LET kept[i \in 0 .. Len(s)] ==
        IF i = 0 THEN <<>>
        ELSE IF s[i] \in keep THEN Append(kept[i - 1], s[i]) ELSE kept[i - 1]
  IN  kept[Len(s)]

\* Mutant: a name is released with the first of its host keys.
changed_uncounted(references, names, step) == names
\* What of names starts or stops being held when one more, or one less, holds it.
changed(references, names, step) ==
  among(names, {name \in Names : references[name] = 0 \/ references[name] + step = 0})

counted(references, names, step) ==
  [name \in DOMAIN references |-> references[name] + IF name \in names THEN step ELSE 0]

(***************************************************************************)
(* The effect of one transition of a known host key.                       *)
(***************************************************************************)
applied(s, code, pressed) ==
  LET step == IF pressed THEN 1 ELSE -1
      names == IF pressed THEN key_names(code) ELSE Reverse(key_names(code))
      keys == changed(s.key_references, names, step)
      bits == {bit \in controls(code) :
                 s.joystick_references[bit] = 0 \/ s.joystick_references[bit] + step = 0}
      joystick == IF pressed THEN s.joystick \union bits ELSE s.joystick \ bits
  IN  [state |->
         [pressed_codes |-> IF pressed THEN s.pressed_codes \union {code}
                            ELSE s.pressed_codes \ {code},
          key_references |-> counted(s.key_references, ToSet(names), step),
          joystick_references |-> counted(s.joystick_references, controls(code), step),
          key_order |-> IF pressed THEN s.key_order \o keys
                        ELSE among(s.key_order, Names \ ToSet(keys)),
          joystick |-> joystick],
       frames |->
         (IF bits = {} THEN <<>> ELSE <<joystick_frame(joystick)>>)
           \o [i \in DOMAIN keys |-> key_frame(keys[i], pressed)]]

\* An event of value 2 is a repeat.
handle(s, code, value) ==
  IF value \in {0, 1} /\ code \in KnownCodes /\ (value = 1) # (code \in s.pressed_codes)
  THEN applied(s, code, value = 1)
  ELSE [state |-> s, frames |-> <<>>]

\* Mutant: the directions are forgotten.
released_keys_only(s) ==
  [i \in DOMAIN s.key_order |-> key_frame(Reverse(s.key_order)[i], FALSE)]

release_all(s) ==
  [i \in DOMAIN s.key_order |-> key_frame(Reverse(s.key_order)[i], FALSE)]
    \o <<joystick_frame({})>>
=============================================================================
