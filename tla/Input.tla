------------------------------- MODULE Input -------------------------------
(* Keyboard and mouse: the interrupt handlers (i8042/keyboard.c, mouse.c,    *)
(* ps2kbd.c, ps2mouse.c) and the translation of scancodes into events        *)
(* (gramk/user/input.c).                                                     *)
(*                                                                           *)
(* The two devices share one output buffer of the 8042 controller, which is  *)
(* external.  A handler runs with interrupts disabled and reads one byte at  *)
(* a time; the controller may load the next byte between any two reads.      *)
(* Caps lock and its like only choose between the character tables: left     *)
(* out, as is the vertical position of the pointer, which is computed like   *)
(* the horizontal one.                                                       *)
EXTENDS Integers, Sequences, FiniteSets

CONSTANTS
    Keys,           \* the keys of the keyboard that the user has
    MaxHeld,        \* bound: keys that the user holds at the same time
    Packets,        \* the packets of the mouse: buttons, movement, overflow bits
    Answers,        \* the answers that the mouse may leave: ACK, 0xFA, and RESEND, 0xFE
    has_wheel,      \* packets have four bytes instead of three
    POSITIONS,      \* the positions of the pointer, 0x400 in the code
    deviceWidth,
    MaxPackets,     \* bound: packets that the mouse sends
    KbdRoom,        \* bound: bytes that wait in the keyboard
    MouseRoom       \* bound: bytes that wait in the mouse

\* Print screen is left out: its bytes hold those of a shift key, with a prefix, and set the
\* shift flag as long as it is held.
AllKeys == {"LSHIFT", "RSHIFT", "LCONTROL", "RCONTROL", "LMENU", "ALTGR", "PAUSE",
            "LETTER", "UP", "INSERT", "F1", "F8", "F9", "F10"}

\* The buttons of the mouse, numbered by their bit in the first byte of a packet.
Buttons == {1, 2, 4}

ASSUME KeysAssumption == Keys \subseteq AllKeys
ASSUME PacketsAssumption ==
    Packets \subseteq [buttons : SUBSET Buttons, dx : -256 .. 255, dy : -256 .. 255,
                       overflow : {0, 64, 128, 192}]
ASSUME AnswersAssumption == Answers \subseteq {250, 254}
ASSUME ScreenAssumption ==
    /\ POSITIONS \in Nat /\ POSITIONS > 0
    /\ deviceWidth \in Nat /\ deviceWidth > 1 /\ deviceWidth \div 2 < POSITIONS
ASSUME WheelAssumption == has_wheel \in BOOLEAN
ASSUME RoomAssumption ==
    KbdRoom \in Nat \ {0} /\ MouseRoom \in Nat \ {0} /\ MaxHeld \in Nat /\ MaxPackets \in Nat

VARIABLES
    out,            \* the output buffer: the device of the byte and the byte
    kport, mport,   \* which ports are enabled
    irq1, irq12,    \* pending interrupts
    kfifo, mfifo,   \* the bytes that wait in the keyboard and in the mouse
    at,             \* "out", or the handler that runs
    keys,           \* the keys that the user holds
    pressed,        \* the buttons that the user holds
    packets,        \* how many packets the mouse has sent
    hand,           \* where the user has moved the mouse to
    __prefix,       \* "none", "E0" or "E1"
    status,         \* which of shift_status, ctrl_status and alt_status are TRUE
    ShellFlag,      \* the kernel console has the keyboard
    buffer_mouse,   \* the bytes of the packet that have come: mouse_stage is their number
    mbuttons_old_state,
    mouse_x,
    told,           \* the buttons that the display server takes for pressed
    shown,          \* the position that the display server knows
    doubled,        \* history: two keys that touch one modifier have been used at the same time
    swallowed,      \* history: the buttons whose last change was not reported
    late,           \* history: the last packet did not report the position
    stray,          \* history: an answer of the mouse was left by the initialisation
    far             \* history: a movement came that does not fit into a char

controller == <<out, kport, mport, irq1, irq12, at>>
user == <<keys, pressed, packets, hand, doubled, stray, far>>
kbd == <<__prefix, status, ShellFlag>>
mouse == <<buffer_mouse, mbuttons_old_state, mouse_x, told, shown, swallowed, late>>
vars == <<controller, kfifo, mfifo, user, kbd, mouse>>

-----------------------------------------------------------------------------
(* The devices (external).                                                  *)

\* The modifier of a key.
Modifier(k) ==
    CASE k \in {"LSHIFT", "RSHIFT"} -> {"shift"}
      [] k \in {"LCONTROL", "RCONTROL"} -> {"ctrl"}
      [] k \in {"LMENU", "ALTGR"} -> {"alt"}
      [] OTHER -> {}

Modifiers == UNION {Modifier(k) : k \in keys}

\* The modifiers whose code is among the bytes of a key: pause sends control's.
Touched(k) == IF k = "PAUSE" THEN {"ctrl"} ELSE Modifier(k)

\* A byte of the keyboard, with the prefix that the keyboard sent before it and the
\* modifiers that the user held.
Byte(code, brk, ext) == [code |-> code, brk |-> brk, ext |-> ext, mods |-> Modifiers]

\* Keys of the extended keyboard share a scancode with another key.
Extended == [RCONTROL |-> "LCONTROL", ALTGR |-> "LMENU", UP |-> "UP", INSERT |-> "INSERT"]

\* What the keyboard sends for a key.
KeyBytes(k, brk) ==
    IF k = "PAUSE"
    THEN <<Byte("E1", FALSE, "none"), Byte("LCONTROL", FALSE, "E1"), Byte("NUMLOCK", FALSE, "none"),
           Byte("E1", FALSE, "none"), Byte("LCONTROL", TRUE, "E1"), Byte("NUMLOCK", TRUE, "none")>>
    ELSE IF k \in DOMAIN Extended
    THEN <<Byte("E0", FALSE, "none"), Byte(Extended[k], brk, "E0")>>
    ELSE <<Byte(k, brk, "none")>>

UserStep == UNCHANGED <<controller, kbd, mouse>>

\* A key goes down, or repeats.
KeyDown(k) ==
    /\ Len(kfifo) + Len(KeyBytes(k, FALSE)) <= KbdRoom
    /\ kfifo' = kfifo \o KeyBytes(k, FALSE)
    /\ k \in keys \/ Cardinality(keys) < MaxHeld
    /\ keys' = IF k = "PAUSE" THEN keys ELSE keys \cup {k}
    /\ doubled' = (doubled \/ \E j \in keys \ {k} : Modifier(j) \cap Touched(k) # {})
    /\ UserStep /\ UNCHANGED <<mfifo, pressed, packets, hand, stray, far>>

KeyUp(k) ==
    /\ k \in keys
    /\ Len(kfifo) + Len(KeyBytes(k, TRUE)) <= KbdRoom
    /\ kfifo' = kfifo \o KeyBytes(k, TRUE)
    /\ keys' = keys \ {k}
    /\ UserStep /\ UNCHANGED <<mfifo, pressed, packets, hand, doubled, stray, far>>

\* The bits of a packet's first byte.
Bit(byte, b) == (byte \div b) % 2 = 1
Sum(S) == (IF 1 \in S THEN 1 ELSE 0) + (IF 2 \in S THEN 2 ELSE 0) + (IF 4 \in S THEN 4 ELSE 0)

PacketLength == IF has_wheel THEN 4 ELSE 3

\* Buttons and movement since the last packet.  A movement has nine bits, the sign in the
\* first byte; one that does not fit sets an overflow bit and is lost.
MousePacket(p) ==
    LET head == Sum(p.buttons) + 8 + (IF p.dx < 0 THEN 16 ELSE 0) + (IF p.dy < 0 THEN 32 ELSE 0)
                + p.overflow
    IN
    /\ Len(mfifo) + PacketLength <= MouseRoom
    /\ mfifo' = mfifo \o SubSeq(<<head, p.dx % 256, p.dy % 256, 0>>, 1, PacketLength)
    /\ packets < MaxPackets /\ packets' = packets + 1
    /\ pressed' = p.buttons
    /\ hand' = IF p.overflow = 0 THEN hand + p.dx ELSE hand
    /\ far' = (far \/ (p.overflow = 0 /\ p.dx \notin -128 .. 127))
    /\ UserStep /\ UNCHANGED <<kfifo, keys, doubled, stray>>

\* The controller takes a byte from an enabled port when its buffer is free, and raises
\* the interrupt of the device.
Empty == [from |-> "none"]

LoadKbd ==
    /\ out = Empty /\ kport /\ kfifo # <<>>
    /\ out' = [from |-> "kbd", byte |-> Head(kfifo)]
    /\ kfifo' = Tail(kfifo)
    /\ irq1' = TRUE
    /\ UNCHANGED <<kport, mport, irq12, at, mfifo, user, kbd, mouse>>

LoadMouse ==
    /\ out = Empty /\ mport /\ mfifo # <<>>
    /\ out' = [from |-> "aux", data |-> Head(mfifo)]
    /\ mfifo' = Tail(mfifo)
    /\ irq12' = TRUE
    /\ UNCHANGED <<kport, mport, irq1, at, kfifo, user, kbd, mouse>>

-----------------------------------------------------------------------------
(* The keyboard.                                                            *)

\* The modifiers after a byte: both keys of a modifier share one flag, and the prefix is
\* not looked at.
AfterByte(b) == IF b.brk THEN status \ Modifier(b.code) ELSE status \cup Modifier(b.code)

FunctionKeys == {"F1", "F8", "F9", "F10"}
IsSystemKey(b) == Modifier(b.code) # {} \/ b.code \in FunctionKeys \/ (b.code = "NUMLOCK" /\ ~b.brk)

\* An extended key: insert is posted when it goes down and when it goes up, an arrow
\* likewise, with control.
__ProcessExtendedKeyboardKeyStroke(b, m) ==
    IF b.code = "INSERT" THEN {"MSG_INSERT"}
    ELSE IF b.code = "UP" /\ "ctrl" \in m THEN {"MSG_CONTROL_ARROW_UP"}
    ELSE {}

\* A function key with modifiers m.
HotKey(code, m) ==
    CASE code = "F1" /\ m \cap {"ctrl", "shift"} = {"ctrl"} -> {"MSG_COMMAND"}
      [] code = "F1" /\ m \cap {"ctrl", "shift"} = {"shift"} -> {"switch_console"}
      [] code = "F8" /\ m \cap {"ctrl", "shift"} = {"shift"} -> {"MSG_HOTKEY"}
      [] code = "F9" /\ "ctrl" \in m -> {"enter_shell"}
      [] code = "F9" /\ m \cap {"ctrl", "shift"} = {"shift"} -> {"reboot"}
      [] code = "F10" /\ "ctrl" \in m -> {"exit_shell"}
      [] OTHER -> {}

\* The console takes keys that go down: characters for its prompt, or, without the
\* prompt, the shortcuts of the display server (ctrl+c and others).
__consoleProcessKeyboardInput(b, m) ==
    IF b.brk THEN {}
    ELSE IF IsSystemKey(b) THEN HotKey(b.code, m)
    ELSE IF ShellFlag THEN {"prompt"}
    ELSE IF b.code = "LETTER" /\ "ctrl" \in m THEN {"MSG_SHORTCUT"}
    ELSE {}

\* Mutant: the prefix is not looked at.
wmRawKeyEventPlain(b, m) ==
    IF ShellFlag THEN __consoleProcessKeyboardInput(b, m)
    ELSE (IF ~IsSystemKey(b) /\ ~b.brk /\ "alt" \notin m THEN {"stdin"} ELSE {})
         \cup (IF m # {} THEN __consoleProcessKeyboardInput(b, m)
               ELSE IF b.code \in FunctionKeys THEN {"MSG_SYSKEY"} ELSE {})

\* What is done for byte b with modifiers m: the messages posted to the display server or
\* to the init process, the characters handed on, the switches.  Without the kernel console a character goes
\* to the standard input, unless alt is held, and what comes with a modifier goes to the
\* console code as well.
wmRawKeyEvent(b, m) ==
    IF __prefix # "none" THEN __ProcessExtendedKeyboardKeyStroke(b, m)
    ELSE IF ShellFlag THEN __consoleProcessKeyboardInput(b, m)
    ELSE (IF ~IsSystemKey(b) /\ ~b.brk /\ "alt" \notin m THEN {"stdin"} ELSE {})
         \cup (IF m # {} THEN __consoleProcessKeyboardInput(b, m)
               ELSE IF b.code \in FunctionKeys THEN {"MSG_SYSKEY"} ELSE {})

\* Mutant: every interrupt starts without a prefix.
irq1_KEYBOARDFresh ==
    /\ at = "out" /\ irq1
    /\ at' = "kbd"
    /\ irq1' = FALSE
    /\ mport' = FALSE
    /\ __prefix' = "none"
    /\ UNCHANGED <<out, kport, irq12, kfifo, mfifo, user, status, ShellFlag, mouse>>

\* The handler disables the port of the mouse ...
irq1_KEYBOARD ==
    /\ at = "out" /\ irq1
    /\ at' = "kbd"
    /\ irq1' = FALSE
    /\ mport' = FALSE
    /\ UNCHANGED <<out, kport, irq12, kfifo, mfifo, user, kbd, mouse>>

\* Mutant: the port stays disabled.
KbdExitDeaf == at' = "out" /\ UNCHANGED mport

\* ... and enables it when it returns.
KbdExit == at' = "out" /\ mport' = TRUE

\* Mutant: it empties the buffer before it returns.
KbdReturnDrains ==
    /\ at = "kbd" /\ out.from # "kbd"
    /\ KbdExit
    /\ out' = Empty
    /\ UNCHANGED <<kport, irq1, irq12, kfifo, mfifo, user, kbd, mouse>>

\* It returns when there is nothing to read, or the byte is the mouse's.
KbdReturn ==
    /\ at = "kbd" /\ out.from # "kbd"
    /\ KbdExit
    /\ UNCHANGED <<out, kport, irq1, irq12, kfifo, mfifo, user, kbd, mouse>>

\* Reading the byte frees the buffer.  An interrupt that is pending stays so.
ReadKbd == out' = Empty /\ UNCHANGED <<kport, irq1, irq12>>

\* An answer to a command: the handler returns.
KbdAck ==
    /\ at = "kbd" /\ out.from = "kbd" /\ out.byte.code = "ACKNOWLEDGE"
    /\ ReadKbd
    /\ KbdExit
    /\ UNCHANGED <<kfifo, mfifo, user, kbd, mouse>>

\* A prefix is kept for the byte that follows, and the handler returns.
KbdPrefix ==
    /\ at = "kbd" /\ out.from = "kbd" /\ out.byte.code \in {"E0", "E1"}
    /\ ReadKbd
    /\ KbdExit
    /\ __prefix' = out.byte.code
    /\ UNCHANGED <<kfifo, mfifo, user, status, ShellFlag, mouse>>

\* Any other byte is translated, and the handler looks for the next one.  do_reboot()
\* does not return, or fails because the FAT cannot be saved.
KbdByte ==
    LET b == out.byte
        m == AfterByte(b)
        effects == wmRawKeyEvent(b, m)
    IN
    /\ at = "kbd" /\ out.from = "kbd" /\ b.code \notin {"ACKNOWLEDGE", "E0", "E1"}
    /\ ReadKbd
    /\ status' = m
    /\ ShellFlag' = ((ShellFlag \/ "enter_shell" \in effects) /\ "exit_shell" \notin effects)
    /\ __prefix' = "none"
    /\ at' \in IF "reboot" \in effects THEN {"reset", at} ELSE {at}
    /\ UNCHANGED <<mport, kfifo, mfifo, user, mouse>>

-----------------------------------------------------------------------------
(* The mouse.                                                               *)

irq12_MOUSE ==
    /\ at = "out" /\ irq12
    /\ at' = "aux"
    /\ irq12' = FALSE
    /\ kport' = FALSE
    /\ UNCHANGED <<out, mport, irq1, kfifo, mfifo, user, kbd, mouse>>

MouseExit == at' = "out" /\ kport' = TRUE

MouseReturn ==
    /\ at = "aux" /\ out.from # "aux"
    /\ MouseExit
    /\ UNCHANGED <<out, mport, irq1, irq12, kfifo, mfifo, user, kbd, mouse>>

ReadMouse == out' = Empty /\ UNCHANGED <<mport, irq1, irq12>>

mouse_stage == Len(buffer_mouse)

\* A byte in the middle of a packet; one that cannot be the first is skipped.
MouseCollect ==
    /\ at = "aux" /\ out.from = "aux"
    /\ mouse_stage + 1 < PacketLength
    /\ ReadMouse
    /\ IF mouse_stage = 0 /\ ~Bit(out.data, 8)
       THEN MouseExit /\ UNCHANGED buffer_mouse
       ELSE buffer_mouse' = Append(buffer_mouse, out.data) /\ UNCHANGED <<at, kport>>
    /\ UNCHANGED <<mbuttons_old_state, mouse_x, told, shown, swallowed, late, kfifo, mfifo, user, kbd>>

\* Mutant: one limit is missing.
LimitAbove(x) == IF x >= deviceWidth THEN deviceWidth - 1 ELSE x

\* wmMouseEvent(): the pointer stays on the screen.
Limit(x) == IF x < 1 THEN 1 ELSE IF x >= deviceWidth THEN deviceWidth - 1 ELSE x

\* Mutant: the delta is unsigned.
DeltaUnsigned(byte) == byte

\* A byte of movement becomes a char: it is negative from 128 on, whatever the sign bit
\* of the packet says, since taking 256 away does not change a char.
Delta(byte) == IF byte >= 128 THEN byte - 256 ELSE byte

Changed(buttons) == (buttons \ mbuttons_old_state) \cup (mbuttons_old_state \ buttons)
First(S) == CHOOSE b \in S : \A c \in S : b <= c

\* Mutant: the old state of the buttons is compared after it was replaced.
__ps2mouse_parse_data_packetStale ==
    LET head == buffer_mouse[1]
        buttons == {b \in {1, 2, 4} : Bit(head, b)}
    IN
    /\ mbuttons_old_state' = buttons
    /\ mouse_x' = (mouse_x + Delta(buffer_mouse[2])) % POSITIONS
    /\ shown' = Limit(mouse_x')
    /\ late' = FALSE
    /\ UNCHANGED <<told, swallowed>>

\* The packet, with the byte that has just come: nothing happens if it overflowed; the
\* change of one button is reported, or else the movement.
__ps2mouse_parse_data_packet ==
    LET packet == Append(buffer_mouse, out.data)
        buttons == {b \in {1, 2, 4} : Bit(packet[1], b)}
        changed == Changed(buttons)
        moved == (mouse_x + Delta(packet[2])) % POSITIONS
        ps2_mouse_moving == moved # mouse_x \/ Delta(packet[3]) % POSITIONS # 0
    IN
    IF Bit(packet[1], 64) \/ Bit(packet[1], 128)
    THEN /\ swallowed' = swallowed \cup changed
         /\ UNCHANGED <<mbuttons_old_state, mouse_x, told, shown, late>>
    ELSE /\ mouse_x' = moved
         /\ mbuttons_old_state' = buttons
         /\ IF changed # {}
            THEN /\ told' = IF First(changed) \in buttons THEN told \cup {First(changed)}
                                                          ELSE told \ {First(changed)}
                 /\ swallowed' = (swallowed \cup changed) \ {First(changed)}
                 /\ late' = TRUE
                 /\ UNCHANGED shown
            ELSE /\ shown' = IF ps2_mouse_moving THEN Limit(moved) ELSE shown
                 /\ late' = (late /\ ~ps2_mouse_moving)
                 /\ UNCHANGED <<told, swallowed>>

\* The last byte of a packet: it is parsed and the handler returns.
MouseCommit ==
    /\ at = "aux" /\ out.from = "aux"
    /\ mouse_stage + 1 = PacketLength
    /\ ReadMouse
    /\ buffer_mouse' = <<>>
    /\ __ps2mouse_parse_data_packet
    /\ MouseExit
    /\ UNCHANGED <<kfifo, mfifo, user, kbd>>

-----------------------------------------------------------------------------
\* After the initialisation of the devices, an answer to the last command may be left in
\* either of them.
Init ==
    /\ out = Empty /\ kport = TRUE /\ mport = TRUE /\ irq1 = FALSE /\ irq12 = FALSE /\ at = "out"
    /\ keys = {} /\ pressed = {} /\ packets = 0 /\ doubled = FALSE
    /\ kfifo \in {<<>>, <<Byte("ACKNOWLEDGE", FALSE, "none")>>}
    /\ mfifo \in {<<>>} \cup {<<a>> : a \in Answers} /\ stray = (mfifo # <<>>)
    /\ __prefix = "none" /\ status = {} /\ ShellFlag = FALSE
    /\ buffer_mouse = <<>> /\ mbuttons_old_state = {}
    /\ mouse_x = deviceWidth \div 2 /\ hand = deviceWidth \div 2 /\ shown = deviceWidth \div 2
    /\ told = {} /\ swallowed = {} /\ late = FALSE /\ far = FALSE

UserActs ==
    \/ \E k \in Keys : KeyDown(k) \/ KeyUp(k)
    \/ \E p \in Packets : MousePacket(p)

Handlers ==
    \/ KbdReturn \/ KbdAck \/ KbdPrefix \/ KbdByte
    \/ MouseReturn \/ MouseCollect \/ MouseCommit

\* The machine restarts: the end of the behaviour.
Restart == at = "reset" /\ UNCHANGED vars

Next ==
    \/ at # "reset" /\ (UserActs \/ LoadKbd \/ LoadMouse \/ irq1_KEYBOARD \/ irq12_MOUSE \/ Handlers)
    \/ Restart

Spec == Init /\ [][Next]_vars

\* A pending interrupt is taken when interrupts are enabled again, and the controller
\* serves both of its ports.
Fairness ==
    /\ SF_vars(irq1_KEYBOARD) /\ SF_vars(irq12_MOUSE)
    /\ SF_vars(LoadKbd) /\ SF_vars(LoadMouse)
    /\ WF_vars(Handlers)

FairSpec == Spec /\ Fairness

-----------------------------------------------------------------------------
\* Type invariant.
TypeOK ==
    /\ out = Empty \/ out.from \in {"kbd", "aux"}
    /\ \A flag \in {kport, mport, irq1, irq12, ShellFlag, doubled, late, stray, far} : flag \in BOOLEAN
    /\ Len(kfifo) <= KbdRoom /\ Len(mfifo) <= MouseRoom
    /\ at \in {"out", "kbd", "aux", "reset"}
    /\ keys \subseteq Keys
    /\ packets \in 0 .. MaxPackets
    /\ pressed \subseteq Buttons /\ mbuttons_old_state \subseteq Buttons
    /\ told \subseteq Buttons /\ swallowed \subseteq Buttons
    /\ __prefix \in {"none", "E0", "E1"}
    /\ status \subseteq {"shift", "ctrl", "alt"}
    /\ mouse_stage \in 0 .. (PacketLength - 1)
    /\ mouse_x \in 0 .. (POSITIONS - 1) /\ hand \in Int
    /\ shown \in 1 .. (deviceWidth - 1)

\* The bytes of each device that no handler has read yet.
KbdUnread == (IF out.from = "kbd" THEN <<out.byte>> ELSE <<>>) \o kfifo
MouseUnread == (IF out.from = "aux" THEN <<out.data>> ELSE <<>>) \o mfifo

\* The handler and the mouse agree on where a packet begins.
InStep == (mouse_stage + Len(MouseUnread)) % PacketLength = 0

\* Once the mouse's handler is in step with the packets, no interrupt brings it out of step
\* again, although it returns in the middle of a packet whenever the next byte has not come
\* yet, the keyboard's handler runs in between, and a first byte cannot be told from a
\* delta with bit 3 set.  It starts in step unless the initialisation left an answer of the
\* mouse, which passes for a first byte and shifts the packets.
PacketsWhole == [][InStep => InStep']_vars

\* When the kernel comes to the byte of a key, its prefix and its modifiers are the ones
\* the keyboard sent and the user held: the state that is kept between two interrupts is
\* the right one.  A modifier that the user holds is only missed if both of its keys were
\* used, because one flag stands for both, or pause was, whose bytes hold control's.
AsTyped ==
    KbdUnread # <<>> =>
        LET b == Head(KbdUnread) IN
        b.code \notin {"ACKNOWLEDGE", "E0", "E1", "NUMLOCK"} =>
            /\ __prefix = b.ext
            /\ Modifier(b.code) = {} => status \subseteq b.mods /\ (status = b.mods \/ doubled)

\* With all packets read, the display server takes exactly those buttons for pressed that
\* are, except the ones whose change came in the same packet as another's, or with an
\* overflow, and unless an answer of the mouse was taken for the start of a packet.
ButtonsTold ==
    MouseUnread = <<>> => stray \/ (pressed \ told) \cup (told \ pressed) \subseteq swallowed

\* With all packets read, the pointer is where the user moved the mouse to, up to the wrap
\* at the last position, unless a movement came that a char cannot hold (it is followed
\* the wrong way) or an answer of the mouse was taken for the start of a packet.  The
\* display server knows the position unless the last packet came with a button's change.
PointerFollows ==
    MouseUnread = <<>> =>
        /\ stray \/ far \/ mouse_x = hand % POSITIONS
        /\ late \/ shown = Limit(mouse_x)

\* What the kernel does on a key is what the user asked for when he struck it: the machine
\* is restarted with shift held, the console and the shortcuts take control, and no key of
\* the extended keyboard, and none with alt, is typed into a program.
Intended ==
    [][KbdByte =>
       LET b == out.byte
           effects == wmRawKeyEvent(b, AfterByte(b))
       IN
       /\ "reboot" \in effects => "shift" \in b.mods
       /\ effects \cap {"enter_shell", "exit_shell", "MSG_SHORTCUT", "MSG_COMMAND"} # {} => "ctrl" \in b.mods
       /\ "stdin" \in effects => b.ext = "none" /\ (doubled \/ "alt" \notin b.mods)]_vars

\* Once the user rests, every byte of both devices is read and the handlers are done.
Settles ==
    <>[][~UserActs]_vars =>
        <>[](at = "reset" \/ (KbdUnread = <<>> /\ MouseUnread = <<>> /\ at = "out"))
=============================================================================
