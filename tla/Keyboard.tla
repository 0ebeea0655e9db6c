------------------------------ MODULE Keyboard ------------------------------
(***************************************************************************)
(* From a key to the character the shell reads. The PS/2 keyboard sends    *)
(* the bytes of a scan code (set 1) one by one; each raises IRQ 1, whose   *)
(* handler collects them (ps2_first_channel_handler), puts the key into    *)
(* the ring keycache (keyboard_process_code) and keeps track of what is    *)
(* held (ps2_keyboard_process_key_value). KeyboardGetKey takes keys out    *)
(* of the ring with interrupts enabled and no lock, so the handler runs    *)
(* between any two of its accesses to the state they share.                *)
(***************************************************************************)
EXTENDS Integers, Sequences

CONSTANTS Keys,         \* the codes of the keys, 0xE0.. for the extended ones
          CACHE_SIZE,   \* 1024 in the code
          CacheEntries, \* how many entries malloc(CACHE_SIZE) has room for
          Slots,        \* 6 in the code, the length of pressed_keys
          MaxKeys       \* bound: how many keys are put into the ring

LEFT_SHIFT  == 42
RIGHT_SHIFT == 54
LEFT_CTRL   == 29
RIGHT_CTRL  == 57373
LEFT_ALT    == 56
RIGHT_ALT   == 57400
CAPSLOCK    == 58
Locks       == {69, 70}   \* number lock and scroll lock, whose state nobody reads

Shifts == {LEFT_SHIFT, RIGHT_SHIFT}
Ctrls  == {LEFT_CTRL, RIGHT_CTRL}
Alts   == {LEFT_ALT, RIGHT_ALT}

\* The keys that are not put into the list of pressed keys.
Unlisted == Shifts \cup Ctrls \cup Alts \cup {CAPSLOCK} \cup Locks

E0 == 224
E1 == 225

\* No break code is one of the two prefixes.
ASSUME KeyboardAssumption ==
  /\ Keys \subseteq ((1 .. 127) \ {96, 97}) \cup {256 * E0 + b : b \in 1 .. 127}
  /\ {CACHE_SIZE, CacheEntries, Slots, MaxKeys} \subseteq Nat \ {0}
  /\ CACHE_SIZE > 1

Numbered == [key : Int, n : Nat]

VARIABLES
  down,          \* the keys somebody holds down
  wire,          \* the bytes of a scan code the keyboard has still to send
  buffer,        \* ps2_first_channel_buffer up to its pointer
  keyboard_keys, \* [shift, ctrl, alt]
  pressed_keys,
  keys_state,    \* keyboard_keys_state, which the reader looks at
  capslock,
  keycache,      \* the ring, of [key, n]: the key and which key it was
  ReadPointer, WritePointer,
  puts,          \* ghost: the number of keys put into the ring so far
  pc, data,      \* where KeyboardGetKey is, and what TakeBuffer has loaded
  lastTaken      \* ghost: the number of the key taken last

device == <<down, wire>>
held   == <<keyboard_keys, pressed_keys, keys_state, capslock>>
ring   == <<keycache, WritePointer, puts>>
reader == <<ReadPointer, pc, data, lastTaken>>
vars   == <<device, buffer, held, ring, reader>>

NoKey   == [key |-> 0, n |-> 0]
Foreign == -1       \* whatever somebody else has written into an entry

Init ==
  /\ down = {} /\ wire = <<>> /\ buffer = <<>>
  /\ keyboard_keys = [shift |-> FALSE, ctrl |-> FALSE, alt |-> FALSE]
  /\ keys_state = keyboard_keys
  /\ pressed_keys = [i \in 1 .. Slots |-> 0]
  /\ capslock = FALSE
  /\ keycache = [i \in 0 .. CACHE_SIZE - 1 |-> NoKey]
  /\ ReadPointer = 0 /\ WritePointer = 0 /\ puts = 0
  /\ pc = "idle" /\ data = NoKey /\ lastTaken = 0

-----------------------------------------------------------------------------
(* The keyboard: make and break codes, and the pause key, which has no     *)
(* break code. A held key repeats its make code.                           *)

LowByte(k) == k % 256
Make(k)    == IF k > 255 THEN <<E0, LowByte(k)>> ELSE <<k>>
Break(k)   == IF k > 255 THEN <<E0, LowByte(k) + 128>> ELSE <<k + 128>>
PauseKey   == <<E1, 29, 69, E1, 157, 197>>

Press(k) == /\ wire = <<>> /\ puts < MaxKeys
            /\ down' = down \cup {k}
            /\ wire' = Make(k)
            /\ UNCHANGED <<buffer, held, ring, reader>>

Release(k) == /\ wire = <<>>
              /\ down' = down \ {k}
              /\ wire' = Break(k)
              /\ UNCHANGED <<buffer, held, ring, reader>>

PressPause == /\ wire = <<>> /\ puts < MaxKeys
              /\ wire' = PauseKey
              /\ UNCHANGED <<down, buffer, held, ring, reader>>

-----------------------------------------------------------------------------
(* The interrupt handler. A key is the number the code computes; 0 stands  *)
(* for the values above 0xFFFF, of which nothing is made: their low byte   *)
(* is 0xE1.                                                                *)

MutComplete(b) == CASE b[1] = E1 -> Len(b) >= 2
                    [] b[1] = E0 -> Len(b) >= 2
                    [] OTHER     -> TRUE
Complete(b) == CASE b[1] = E1 -> Len(b) >= 3
                 [] b[1] = E0 -> Len(b) >= 2
                 [] OTHER     -> TRUE

KeyValue(b) == CASE b[1] = E1 -> 0
                 [] b[1] = E0 -> 256 * E0 + b[2]
                 [] OTHER     -> b[1]

IsPress(key) == LowByte(key) < 128

MutAdvance(pointer) == IF pointer + 1 > CACHE_SIZE THEN 0 ELSE pointer + 1
Advance(pointer) == IF pointer + 1 >= CACHE_SIZE THEN 0 ELSE pointer + 1

\* keyboard_process_code and PutBuffer: presses go into the ring, whether
\* or not the reader has kept up.
MutPutBuffer(key) ==
  /\ puts' = puts + 1
  /\ WritePointer' = Advance(WritePointer)
  /\ keycache' = [keycache EXCEPT ![WritePointer'] = [key |-> key, n |-> puts']]
PutBuffer(key) ==
  /\ puts' = puts + 1
  /\ keycache' = [keycache EXCEPT ![WritePointer] = [key |-> key, n |-> puts']]
  /\ WritePointer' = Advance(WritePointer)

\* A pressed modifier is noted, and keyboard_update_keys_state copies all
\* three; of a released one the copy is not told.
MutHold(shift, ctrl, alt) ==
  /\ keyboard_keys' = [keyboard_keys EXCEPT !.shift = @ \/ shift, !.ctrl = @ \/ ctrl,
                                            !.alt = @ \/ alt]
  /\ keys_state' = [shift |-> shift, ctrl |-> ctrl, alt |-> alt]
  /\ UNCHANGED <<pressed_keys, capslock>>
Hold(shift, ctrl, alt) ==
  /\ keyboard_keys' = [keyboard_keys EXCEPT !.shift = @ \/ shift, !.ctrl = @ \/ ctrl,
                                            !.alt = @ \/ alt]
  /\ keys_state' = keyboard_keys'
  /\ UNCHANGED <<pressed_keys, capslock>>

LetGo(shift, ctrl, alt) ==
  /\ keyboard_keys' = [keyboard_keys EXCEPT !.shift = @ /\ ~shift, !.ctrl = @ /\ ~ctrl,
                                            !.alt = @ /\ ~alt]
  /\ UNCHANGED <<keys_state, pressed_keys, capslock>>

\* The list of pressed keys. The loop that makes room for a new key copies
\* upwards, so that all the other places get what was in the first; a released
\* key leaves a 0 in the first place that has it.
AddPressed(key) ==
  /\ pressed_keys' = IF \E i \in 1 .. Slots : pressed_keys[i] = key
                     THEN pressed_keys
                     ELSE [i \in 1 .. Slots |-> IF i = 1 THEN key ELSE pressed_keys[1]]
  /\ UNCHANGED <<keyboard_keys, keys_state, capslock>>

MutDropPressed(key) ==
  /\ pressed_keys' = [i \in 1 .. Slots |->
        IF i = 1 /\ \E j \in 1 .. Slots : pressed_keys[j] = key
        THEN 0 ELSE pressed_keys[i]]
  /\ UNCHANGED <<keyboard_keys, keys_state, capslock>>
DropPressed(key) ==
  /\ pressed_keys' = [i \in 1 .. Slots |->
        IF pressed_keys[i] = key /\ \A j \in 1 .. i - 1 : pressed_keys[j] # key
        THEN 0 ELSE pressed_keys[i]]
  /\ UNCHANGED <<keyboard_keys, keys_state, capslock>>

\* ps2_keyboard_process_key_value
ProcessKeyValue(key) ==
  IF IsPress(key)
  THEN IF key \in Shifts \cup Ctrls \cup Alts
       THEN Hold(key \in Shifts, key \in Ctrls, key \in Alts)
       ELSE IF key = CAPSLOCK
            THEN capslock' = ~capslock /\ UNCHANGED <<keyboard_keys, keys_state, pressed_keys>>
            ELSE IF key \in Locks THEN UNCHANGED held ELSE AddPressed(key)
  ELSE LET k == key - 128
       IN IF k \in Shifts \cup Ctrls \cup Alts
          THEN LetGo(k \in Shifts, k \in Ctrls, k \in Alts)
          ELSE DropPressed(k)

\* One interrupt: the whole handler runs with interrupts disabled.
Interrupt ==
  /\ wire # <<>>
  /\ wire' = Tail(wire)
  /\ LET b   == Append(buffer, Head(wire))
         key == KeyValue(b)
     IN IF ~Complete(b)
        THEN buffer' = b /\ UNCHANGED <<held, ring>>
        ELSE /\ buffer' = <<>>
             /\ IF key # 0 /\ IsPress(key) THEN PutBuffer(key) ELSE UNCHANGED ring
             /\ IF key # 0 THEN ProcessKeyValue(key) ELSE UNCHANGED held
  /\ UNCHANGED <<down, reader>>

\* The block malloc returned is CACHE_SIZE bytes long and holds fewer than
\* CACHE_SIZE entries: the rest of the ring is memory the heap gives to
\* others, who write what they like there.
Neighbour ==
  /\ \E i \in CacheEntries .. CACHE_SIZE - 1 : keycache' = [keycache EXCEPT ![i].key = Foreign]
  /\ UNCHANGED <<device, buffer, held, WritePointer, puts, reader>>

-----------------------------------------------------------------------------
(* KeyboardGetKey, which the shell calls in a loop. The pointers and the   *)
(* entry are read one after the other.                                     *)

\* TakeBuffer: "if (ReadPointer == WritePointer) return 0".
MutCompare ==
  /\ pc = "idle"
  /\ pc' = "load" /\ UNCHANGED data
  /\ UNCHANGED <<device, buffer, held, ring, ReadPointer, lastTaken>>
Compare ==
  /\ pc = "idle"
  /\ IF ReadPointer = WritePointer
     THEN pc' = "translate" /\ data' = NoKey
     ELSE pc' = "load" /\ UNCHANGED data
  /\ UNCHANGED <<device, buffer, held, ring, ReadPointer, lastTaken>>

\* The rest of TakeBuffer: only this entry is shared with the handler.
MutLoad ==
  /\ pc = "load"
  /\ data' = keycache[ReadPointer]
  /\ ReadPointer' = ReadPointer
  /\ lastTaken' = data'.n
  /\ pc' = "translate"
  /\ UNCHANGED <<device, buffer, held, ring>>
Load ==
  /\ pc = "load"
  /\ data' = keycache[ReadPointer]
  /\ ReadPointer' = Advance(ReadPointer)
  /\ lastTaken' = data'.n
  /\ pc' = "translate"
  /\ UNCHANGED <<device, buffer, held, ring>>

\* The layout is chosen by what is held now, not by what was held when the
\* key was pressed; the character, which only the caller sees, is left out.
Translate ==
  /\ pc = "translate"
  /\ pc' = "idle" /\ data' = NoKey
  /\ UNCHANGED <<device, buffer, held, ring, ReadPointer, lastTaken>>

KeyboardGetKey == Compare \/ Load \/ Translate

Next == \/ \E k \in Keys : Press(k)
        \/ \E k \in down : Release(k)
        \/ PressPause
        \/ Interrupt
        \/ Neighbour
        \/ KeyboardGetKey

\* A raised interrupt is taken, and the shell asks for keys again and again
\* while it reads a line (ReadLine waits in a loop for enter).
Fairness == WF_vars(Interrupt) /\ WF_vars(KeyboardGetKey)

Spec == Init /\ [][Next]_vars /\ Fairness

-----------------------------------------------------------------------------
(* Properties *)

Distance == (WritePointer - ReadPointer) % CACHE_SIZE

\* Every variable has its type.
TypeOK ==
  /\ down \subseteq Keys
  /\ wire \in Seq(0 .. 255) /\ buffer \in Seq(0 .. 255)
  /\ keyboard_keys \in [shift : BOOLEAN, ctrl : BOOLEAN, alt : BOOLEAN]
  /\ keys_state \in [shift : BOOLEAN, ctrl : BOOLEAN, alt : BOOLEAN]
  /\ pressed_keys \in [1 .. Slots -> Keys \cup {0}]
  /\ capslock \in BOOLEAN
  /\ keycache \in [0 .. CACHE_SIZE - 1 -> Numbered]
  /\ {ReadPointer, WritePointer} \subseteq 0 .. CACHE_SIZE - 1
  /\ puts \in Nat /\ lastTaken \in Nat
  /\ pc \in {"idle", "load", "translate"} /\ data \in Numbered

\* The handler never loses count of the bytes: what it has collected is the
\* part of the current scan code, or of its current half for the pause key,
\* that the keyboard has sent, so that a byte of one key is never taken for
\* another key.
DecoderInStep ==
  LET codes == {Make(k) : k \in Keys} \cup {Break(k) : k \in Keys}
                 \cup {PauseKey, SubSeq(PauseKey, 4, 6)}
  IN IF wire = <<>> THEN buffer = <<>> ELSE buffer \o wire \in codes

\* Between the pointers lie the last keys put into the ring, each exactly
\* once and in order, wherever the handler interrupted TakeBuffer and even
\* after the handler has lapped the reader; only entries that lie outside
\* the block malloc returned may have been overwritten.
RingKeepsOrder ==
  /\ Distance <= puts
  /\ \A j \in 1 .. Distance :
       LET i == (WritePointer - j) % CACHE_SIZE
       IN keycache[i].n = puts - j + 1 /\ (keycache[i].key = Foreign => i >= CacheEntries)

\* The shell is never given a key twice or a key older than one it has had,
\* and when keys are lost, the ring has been overrun: a whole multiple of
\* its length is missing.
TakenInOrder ==
  [][pc = "load" /\ pc' # pc =>
       lastTaken' > lastTaken /\ (lastTaken' - lastTaken - 1) % CACHE_SIZE = 0]_vars

\* On a keyboard with one shift key, the reader uses the shifted layout as
\* long as that key is held, whatever other keys are pressed and released
\* meanwhile. (With two, releasing one clears the flag of both.)
ShiftHeldIsSeen ==
  \A s \in Shifts :
    (wire = <<>> /\ s \in down /\ Keys \cap Shifts = {s}) => keys_state.shift

\* The key put into the ring last is in pressed_keys as long as it is held,
\* whatever other keys are released meanwhile. (Of the other keys that are
\* held the list may have lost all but one, and it may show released keys:
\* the code's copying leaves them there.)
LatestIsListed ==
  LET key == keycache[(WritePointer - 1) % CACHE_SIZE].key
  IN  wire = <<>> /\ key \in down \ Unlisted =>
        \E i \in 1 .. Slots : pressed_keys[i] = key

\* A key in the ring is taken, or lost because the ring was overrun; it does
\* not stay there while the shell is asking.
KeysAreTaken ==
  \A n \in 1 .. MaxKeys : (puts = n /\ Distance > 0) ~> (Distance = 0 \/ puts > n)
=============================================================================
