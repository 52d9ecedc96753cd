------------------------------- MODULE RgbLed -------------------------------
(***************************************************************************)
(* The light of object_rgb_led.cpp: resources 5706 (colour) and 5850       *)
(* (on/off) of the Light Control object, and the two joystick interrupts   *)
(* that switch the light behind the main loop's back.                      *)
(*                                                                         *)
(* The main loop is one thread; an interrupt may come between any two of   *)
(* its accesses to the shared state.  The handlers switchon and switchoff  *)
(* are attached to pins of one port, so they run to their end and never    *)
(* inside each other.  The main loop makes one access a step, at the lines *)
(* that the functions it calls have in common:                             *)
(*   1 to 3  set_color keeps the three levels of the colour                *)
(*   4       the flag of the light is set (switchon, switchoff) or tested  *)
(*           (set_color)                                                   *)
(*   5 to 7  the three channels are written, or read (prv_set_value)       *)
(*   0       it is in none of them                                         *)
(*                                                                         *)
(* A level is the power of a channel: 0 is a PWM of 1.0f, the LED is dark. *)
(***************************************************************************)
EXTENDS Integers, Sequences

CONSTANTS
  Colours,  \* colours that may be written, the levels by the name of the colour
  Default,  \* the colour of get_object_rgb_led
  Writable, \* what a resource of a write may hold: a colour, "on", "off", "bad"
  MaxItems  \* resources in one write

Channels == {"r", "g", "b"}
Names == DOMAIN Colours

ASSUME LightAssumption ==
  /\ Colours \in [Names -> [Channels -> Nat]] /\ Default \in [Channels -> Nat]
  /\ Names \cap {"on", "off", "bad", "read"} = {}
  /\ Writable \subseteq Names \cup {"on", "off", "bad"}
  /\ MaxItems \in Nat \ {0}

Channel(line) == CASE line \in {1, 5} -> "r" [] line \in {2, 6} -> "g" [] OTHER -> "b"
Dark == [c \in Channels |-> 0]
Lit(p) == \E c \in Channels : p[c] > 0
State(p) == IF Lit(p) THEN "on" ELSE "off"

VARIABLES
  on,           \* state->on
  value,        \* state->rv, gv, bv
  pwm,          \* the levels of rpw, gpw, bpw
  items,        \* resources of a write not yet written
  call,         \* what the main loop was last called for: a colour, "on", "off", "read"
  line,         \* the access that comes next
  reported,     \* what resource 5850 was read as, if nothing came since
  torn,         \* the last call to write the pins was switched the other way meanwhile,
                \* and no button has set them since
  seen          \* the moments of the last read: what the pins showed, and state->on

vars == <<on, value, pwm, items, call, line, reported, torn, seen>>

TypeOK ==
  /\ on \in BOOLEAN
  /\ value \in [Channels -> Nat]
  /\ pwm \in [Channels -> Nat]
  /\ items \in Seq(Writable)
  /\ call \in Names \cup {"on", "off", "read"} /\ line \in 0 .. 7
  /\ line \in 1 .. 3 => call \in Names
  /\ line = 4 => call # "read"
  /\ reported \in {"none", "on", "off"}
  /\ torn \in BOOLEAN
  /\ seen \subseteq {"on", "off"} \X BOOLEAN

Init ==
  /\ on = FALSE
  /\ value = Default
  /\ pwm = Dark
  /\ items = <<>> /\ call = "off" /\ line = 0
  /\ reported = "none"
  /\ torn = FALSE
  /\ seen = {}

-----------------------------------------------------------------------------
(* The calls of the main loop. *)

AtRest == line = 0
After == IF line = 7 THEN 0 ELSE line + 1

\* A write reaches the object while the main loop is in no other call.
prv_rgb_write(xs) ==
  /\ AtRest /\ items = <<>>
  /\ items' = xs
  /\ reported' = "none"
  /\ UNCHANGED <<on, value, pwm, call, line, torn, seen>>

\* The next resource of the write.  "bad" is a colour or a Boolean that does not
\* parse, or a resource that cannot be written: those behind it are not, those
\* before it stay.
item ==
  /\ AtRest /\ items # <<>>
  /\ IF Head(items) = "bad"
       THEN items' = <<>> /\ UNCHANGED <<call, line>>
       ELSE /\ items' = Tail(items)
            /\ call' = Head(items)
            /\ line' = IF Head(items) \in Names THEN 1 ELSE 4
  /\ UNCHANGED <<on, value, pwm, reported, torn, seen>>

\* set_color: the colour is kept first, then applied "only if the light is ON".
Store_NotInverted ==
  /\ line \in 1 .. 3
  /\ value' = [value EXCEPT ![Channel(line)] = -Colours[call][Channel(line)]]
  /\ line' = After
  /\ UNCHANGED <<on, pwm, items, call, reported, torn, seen>>
Store ==
  /\ line \in 1 .. 3
  /\ value' = [value EXCEPT ![Channel(line)] = Colours[call][Channel(line)]]
  /\ line' = After
  /\ UNCHANGED <<on, pwm, items, call, reported, torn, seen>>

\* A colour for a light that is off writes no pin, and repairs none.
Test_Negated ==
  /\ line = 4 /\ call \in Names
  /\ line' = IF on THEN 0 ELSE After
  /\ torn' = (torn /\ on)
  /\ UNCHANGED <<on, value, pwm, items, call, reported, seen>>
Test ==
  /\ line = 4 /\ call \in Names
  /\ line' = IF on THEN After ELSE 0
  /\ torn' = (torn /\ ~on)
  /\ UNCHANGED <<on, value, pwm, items, call, reported, seen>>

\* switchon and switchoff set the flag first.
Flag_NeverOff ==
  /\ line = 4 /\ call \in {"on", "off"}
  /\ on' = (on \/ call = "on")
  /\ line' = After
  /\ torn' = FALSE
  /\ UNCHANGED <<value, pwm, items, call, reported, seen>>
Flag ==
  /\ line = 4 /\ call \in {"on", "off"}
  /\ on' = (call = "on")
  /\ line' = After
  /\ torn' = FALSE
  /\ UNCHANGED <<value, pwm, items, call, reported, seen>>

Apply ==
  /\ line \in 5 .. 7 /\ call # "read"
  /\ pwm' = [pwm EXCEPT ![Channel(line)] = IF call = "off" THEN 0 ELSE value[Channel(line)]]
  /\ line' = After
  /\ UNCHANGED <<on, value, items, call, reported, torn, seen>>

\* prv_set_value on resource 5850: the channels are read until one is lit.
prv_set_value ==
  /\ AtRest /\ items = <<>>
  /\ call' = "read" /\ line' = 5
  /\ seen' = {<<State(pwm), on>>}
  /\ reported' = "none"
  /\ UNCHANGED <<on, value, pwm, items, torn>>

\* One operand of the disjunction.
Read_Conjunction ==
  /\ line \in 5 .. 7 /\ call = "read"
  /\ IF pwm[Channel(line)] = 0
       THEN line' = 0 /\ reported' = "off"
       ELSE line' = After /\ reported' = IF line = 7 THEN "on" ELSE "none"
  /\ UNCHANGED <<on, value, pwm, items, call, torn, seen>>
Read ==
  /\ line \in 5 .. 7 /\ call = "read"
  /\ IF pwm[Channel(line)] > 0
       THEN line' = 0 /\ reported' = "on"
       ELSE line' = After /\ reported' = IF line = 7 THEN "off" ELSE "none"
  /\ UNCHANGED <<on, value, pwm, items, call, torn, seen>>

-----------------------------------------------------------------------------
(* The joystick. *)

\* An interrupt writes all pins itself, so only one that switches the light against
\* a call that has begun to write them, and will go on, leaves them mixed.
interrupt(flag, levels) ==
  /\ on' = flag
  /\ pwm' = levels
  /\ torn' = (line \in 5 .. 7 /\ call # "read" /\ flag # (call # "off"))
  /\ seen' = IF line # 0 /\ call = "read" THEN seen \cup {<<State(levels), flag>>} ELSE {}
  /\ reported' = "none"
  /\ UNCHANGED <<value, items, call, line>>

switchon == interrupt(TRUE, value)
switchoff == interrupt(FALSE, Dark)

Writes == UNION {[1 .. n -> Writable] : n \in 1 .. MaxItems}

Next ==
  \/ \E xs \in Writes : prv_rgb_write(xs)
  \/ prv_set_value
  \/ item \/ Store \/ Test \/ Flag \/ Apply \/ Read
  \/ switchon
  \/ switchoff

Spec == Init /\ [][Next]_vars

-----------------------------------------------------------------------------
(* Properties. *)

Shown == IF on THEN value ELSE Dark

\* The pins show the state of the light whenever the main loop is in no call, unless
\* the last call to write them was switched the other way between its writes: the
\* next button or the next call that writes all pins repairs what that one left, and
\* a button at any other moment does no harm.
PinsShowState == AtRest /\ ~torn => pwm = Shown

\* Wherever the interrupts come, a light that is on has no channel left with the
\* power of a colour that is no longer its colour.
NoStaleColour == AtRest /\ on => \A c \in Channels : pwm[c] \in {0, value[c]}

\* The three reads of resource 5850 are not one access, and buttons may be pressed
\* between them: what is reported is what the light was at some moment of the read,
\* as long as its pins showed its state then.
ReportedWasTrue ==
  reported # "none" /\ (\A y \in seen : y[1] = State(IF y[2] THEN value ELSE Dark))
    => \E y \in seen : y[1] = reported

\* "apply color only if the light is ON": a call leaves no light in a lamp that is
\* switched off.
OffIsDark == AtRest /\ ~on => ~Lit(pwm)
=============================================================================
