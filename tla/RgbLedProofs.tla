------------------------------ MODULE RgbLedProofs ------------------------------
(***************************************************************************)
(* What the light keeps wherever the joystick interrupts, for any colours, *)
(* and any sequence of writes and reads.  The invariants of RgbLed speak   *)
(* of a main loop at rest; IInv adds what holds at each of its lines.      *)
(***************************************************************************)
EXTENDS RgbLed, TLAPS

Writing == line # 0 /\ call # "read"
Reading == line # 0 /\ call = "read"

\* A channel that the present call has written.
Settled(c) == pwm[c] \in {0, value[c]} /\ (~torn => pwm[c] = Shown[c])

\* Outside the calls that write: what the pins show.
StillInv ==
  ~Writing => /\ ~torn => pwm = Shown
              /\ on => \A c \in Channels : pwm[c] \in {0, value[c]}

\* Inside them: what a call that was not switched the other way has done so far.
WriteInv ==
  /\ line \in 1 .. 4 /\ call \in Names => (~torn /\ ~on => pwm = Dark)
  /\ Writing /\ line \in 5 .. 7 =>
       /\ ~torn => on = (call # "off")
       /\ line >= 6 => Settled("r")
       /\ line = 7 => Settled("g")

\* The pins showed the state of the light at every moment of the read.
Consistent == \A y \in seen : y[1] = State(IF y[2] THEN value ELSE Dark)
WasOff == \E y \in seen : y[1] = "off"

\* A read that has not ended has seen the light off or has a lit channel before it.
ReadInv ==
  Reading => /\ line \in 5 .. 7 /\ items = <<>>
             /\ <<State(pwm), on>> \in seen
             /\ Consistent => \/ WasOff
                              \/ line = 5 /\ pwm["r"] > 0
                              \/ line <= 6 /\ pwm["g"] > 0
                              \/ pwm["b"] > 0

ReportInv ==
  /\ reported # "none" => line = 0 /\ items = <<>>
  /\ ReportedWasTrue

IInv == TypeOK /\ StillInv /\ WriteInv /\ ReadInv /\ ReportInv

-----------------------------------------------------------------------------
(* Type correctness. *)

\* The sequences of a write are sequences of what may be written.
LEMMA WritesType == \A xs \in Writes : xs \in Seq(Writable)
  BY LightAssumption DEF Writes

\* A channel has a name of its own at each line.
LEMMA ChannelType == \A l \in 0 .. 7 : Channel(l) \in Channels
  BY DEF Channel, Channels

\* The levels of the colours and of a dark light are levels.
LEMMA LevelsType ==
  /\ Dark \in [Channels -> Nat] /\ Default \in [Channels -> Nat]
  /\ \A n \in Names : Colours[n] \in [Channels -> Nat]
  BY LightAssumption DEF Dark, Names

\* Initially the light is off and the main loop at rest.
LEMMA InitType == Init => TypeOK
  <1> SUFFICES ASSUME Init PROVE TypeOK
    OBVIOUS
  <1>1. value \in [Channels -> Nat] /\ pwm \in [Channels -> Nat]
    BY LevelsType DEF Init
  <1>2. items \in Seq(Writable)
    BY DEF Init
  <1>3. on \in BOOLEAN /\ torn \in BOOLEAN
    BY Zenon DEF Init
  <1>4. seen \subseteq {"on", "off"} \X BOOLEAN
    BY Zenon DEF Init
  <1>5. /\ call \in Names \cup {"on", "off", "read"} /\ line \in 0 .. 7
        /\ line \in 1 .. 3 => call \in Names
        /\ line = 4 => call # "read"
        /\ reported \in {"none", "on", "off"}
    BY SMT DEF Init
  <1> QED
    BY <1>1, <1>2, <1>3, <1>4, <1>5 DEF TypeOK

\* Each access and each interrupt keeps the type of what it changes.
LEMMA NextType == TypeOK /\ [Next]_vars => TypeOK'
  <1> SUFFICES ASSUME TypeOK, [Next]_vars PROVE TypeOK'
    OBVIOUS
  <1> USE DEF TypeOK
  <1>1. ASSUME NEW xs \in Writes, prv_rgb_write(xs) PROVE TypeOK'
    BY <1>1, WritesType DEF prv_rgb_write, AtRest
  <1>2. CASE prv_set_value
    <2>1. State(pwm) \in {"on", "off"}
      BY DEF State
    <2> QED
      BY <1>2, <2>1 DEF prv_set_value, AtRest
  <1>3. CASE item
    <2>1. Head(items) \in Writable /\ Tail(items) \in Seq(Writable)
      BY <1>3 DEF item
    <2>2. Head(items) # "bad" => Head(items) \in Names \cup {"on", "off"}
      BY <2>1, LightAssumption
    <2>3. items' \in Seq(Writable)
      <3>1. <<>> \in Seq(Writable)
        OBVIOUS
      <3> QED
        BY <1>3, <2>1, <3>1 DEF item
    <2>4. /\ call' \in Names \cup {"on", "off", "read"} /\ line' \in 0 .. 7
          /\ line' \in 1 .. 3 => call' \in Names
          /\ line' = 4 => call' # "read"
      <3>1. CASE Head(items) = "bad"
        BY <1>3, <3>1 DEF item, AtRest
      <3>2. CASE Head(items) # "bad"
        BY <1>3, <2>2, <3>2 DEF item
      <3> QED
        BY <3>1, <3>2
    <2> QED
      BY <1>3, <2>3, <2>4 DEF item
  <1>4. CASE Store
    <2>1. call \in Names /\ Channel(line) \in Channels
      BY <1>4, ChannelType DEF Store
    <2>2. Colours[call][Channel(line)] \in Nat
      BY <2>1, LevelsType
    <2>3. value' \in [Channels -> Nat]
      BY <1>4, <2>1, <2>2 DEF Store
    <2>4. line' \in 2 .. 4 /\ call \notin {"on", "off", "read"}
      BY <1>4, <2>1, LightAssumption DEF Store, After
    <2> QED
      BY <1>4, <2>1, <2>3, <2>4 DEF Store
  <1>5. CASE Test
    <2>1. torn' \in BOOLEAN
      BY <1>5, Zenon DEF Test
    <2> QED
      BY <1>5, <2>1 DEF Test, After
  <1>6. CASE Flag
    <2>1. on' \in BOOLEAN /\ torn' \in BOOLEAN
      BY <1>6, Zenon DEF Flag
    <2> QED
      BY <1>6, <2>1 DEF Flag, After
  <1>7. CASE Apply
    <2>1. Channel(line) \in Channels
      BY ChannelType
    <2>2. pwm' \in [Channels -> Nat]
      BY <1>7, <2>1 DEF Apply
    <2> QED
      BY <1>7, <2>2 DEF Apply, After
  <1>8. CASE Read
    BY <1>8 DEF Read, After
  <1>9. ASSUME NEW flag \in BOOLEAN, NEW levels \in [Channels -> Nat], interrupt(flag, levels)
        PROVE  TypeOK'
    <2>1. State(levels) \in {"on", "off"}
      BY DEF State
    <2>2. torn' \in BOOLEAN
      BY <1>9, Zenon DEF interrupt
    <2> QED
      BY <1>9, <2>1, <2>2 DEF interrupt
  <1>10. CASE UNCHANGED vars
    BY <1>10 DEF vars
  <1> QED
    BY <1>1, <1>2, <1>3, <1>4, <1>5, <1>6, <1>7, <1>8, <1>9, <1>10, LevelsType
       DEF Next, switchon, switchoff

\* The state of the light keeps its type, whatever is written, read or pressed.
THEOREM LightTypeCorrect == Spec => []TypeOK
  <1>1. Init => TypeOK
    BY InitType
  <1>2. TypeOK /\ [Next]_vars => TypeOK'
    BY NextType
  <1> QED
    BY <1>1, <1>2, PTL DEF Spec
-----------------------------------------------------------------------------
(* The invariants. *)

\* Initially the light is off, dark and unread.
LEMMA InitInv == Init => IInv
  <1> SUFFICES ASSUME Init PROVE IInv
    OBVIOUS
  <1>1. TypeOK
    BY InitType
  <1>2. StillInv
    BY DEF Init, StillInv, Shown, Writing
  <1>3. WriteInv
    BY DEF Init, WriteInv, Writing
  <1>4. ReadInv /\ ReportInv
    BY DEF Init, ReadInv, ReportInv, Reading, ReportedWasTrue
  <1> QED
    BY <1>1, <1>2, <1>3, <1>4 DEF IInv

\* What the pins show outside the calls that write survives every step: the calls
\* leave it right behind them and an interrupt sets everything.
LEMMA StillStep ==
  ASSUME IInv, TypeOK', Next
  PROVE  StillInv'
  <1> USE DEF IInv, TypeOK, StillInv, Writing, Shown
  <1>1. ASSUME NEW xs \in Writes, prv_rgb_write(xs) PROVE StillInv'
    BY <1>1 DEF prv_rgb_write, AtRest
  <1>2. CASE prv_set_value
    BY <1>2 DEF prv_set_value, AtRest
  <1>3. CASE item
    BY <1>3 DEF item, AtRest
  <1>4. CASE Store
    BY <1>4, LightAssumption DEF Store, After
  <1>5. CASE Test
    BY <1>5, LightAssumption DEF Test, After, WriteInv
  <1>6. CASE Flag
    BY <1>6 DEF Flag, After
  <1>7. CASE Apply
    <2> SUFFICES ASSUME ~Writing' PROVE StillInv'
      BY Zenon
    <2>1. line = 7 /\ call # "read" /\ UNCHANGED <<on, value, torn>>
      BY <1>7 DEF Apply, After
    <2>2. pwm' = [pwm EXCEPT !["b"] = IF call = "off" THEN 0 ELSE value["b"]]
      BY <1>7, <2>1 DEF Apply, Channel
    <2>3. Settled("r") /\ Settled("g") /\ (~torn => on = (call # "off"))
      BY <2>1 DEF WriteInv
    <2>4. \A c \in Channels : pwm'[c] \in {0, value[c]}
      BY <2>2, <2>3 DEF Settled, Channels
    <2>5. ASSUME ~torn PROVE \A c \in Channels : pwm'[c] = Shown[c]
      BY <2>2, <2>3, <2>5 DEF Settled, Channels, Dark
    <2>6. Shown \in [Channels -> Nat]
      BY LevelsType
    <2>7. ASSUME ~torn PROVE pwm' = Shown
      BY <2>2, <2>5, <2>6, <2>7
    <2> QED
      BY <2>1, <2>4, <2>7
  <1>8. CASE Read
    BY <1>8 DEF Read, After
  <1>9. CASE switchon
    BY <1>9 DEF switchon, interrupt
  <1>10. CASE switchoff
    BY <1>10 DEF switchoff, interrupt, Dark
  <1> QED
    BY <1>1, <1>2, <1>3, <1>4, <1>5, <1>6, <1>7, <1>8, <1>9, <1>10 DEF Next

\* A call not switched the other way leaves channel after channel as the state says.
LEMMA WriteStep ==
  ASSUME IInv, TypeOK', Next
  PROVE  WriteInv'
  <1> USE DEF IInv, TypeOK, WriteInv, Writing, Settled, Shown
  <1>1. ASSUME NEW xs \in Writes, prv_rgb_write(xs) PROVE WriteInv'
    BY <1>1 DEF prv_rgb_write, AtRest
  <1>2. CASE prv_set_value
    BY <1>2, LightAssumption DEF prv_set_value
  <1>3. CASE item
    BY <1>3 DEF item, AtRest, StillInv
  <1>4. CASE Store
    BY <1>4 DEF Store, After
  <1>5. CASE Test
    BY <1>5, LightAssumption DEF Test, After
  <1>6. CASE Flag
    BY <1>6, LightAssumption DEF Flag, After
  <1>7. CASE Apply
    BY <1>7 DEF Apply, After, Channel, Channels, Dark
  <1>8. CASE Read
    BY <1>8, LightAssumption DEF Read, After
  <1>9. CASE switchon
    BY <1>9 DEF switchon, interrupt, Channels
  <1>10. CASE switchoff
    BY <1>10 DEF switchoff, interrupt, Dark, Channels
  <1> QED
    BY <1>1, <1>2, <1>3, <1>4, <1>5, <1>6, <1>7, <1>8, <1>9, <1>10 DEF Next

\* A dark light shows "off".
LEMMA DarkIsOff == State(Dark) = "off"
  BY DEF State, Lit, Dark

\* A read goes on with a lit channel before it, or has seen the light off: a button
\* darkens all channels, which is seen, or lights all that were lit.
LEMMA ReadStep ==
  ASSUME IInv, TypeOK', Next
  PROVE  ReadInv'
  <1> USE DEF IInv, TypeOK, ReadInv, Reading
  <1>1. ASSUME NEW xs \in Writes, prv_rgb_write(xs) PROVE ReadInv'
    BY <1>1 DEF prv_rgb_write, AtRest
  <1>2. CASE prv_set_value
    <2>1. /\ line' = 5 /\ items' = <<>> /\ pwm' = pwm /\ on' = on
          /\ seen' = {<<State(pwm), on>>}
      BY <1>2 DEF prv_set_value
    <2>2. WasOff' \/ pwm["r"] > 0 \/ pwm["g"] > 0 \/ pwm["b"] > 0
      BY <2>1 DEF WasOff, State, Lit, Channels
    <2> QED
      BY <2>1, <2>2 DEF State, Lit
  <1>3. CASE item
    BY <1>3, LightAssumption DEF item, AtRest
  <1>4. CASE Store
    BY <1>4, LightAssumption DEF Store
  <1>5. CASE Test
    BY <1>5, LightAssumption DEF Test
  <1>6. CASE Flag
    BY <1>6 DEF Flag
  <1>7. CASE Apply
    BY <1>7 DEF Apply
  <1>8. CASE Read
    <2> SUFFICES ASSUME Reading' PROVE ReadInv'
      OBVIOUS
    <2>1. line \in 5 .. 6 /\ line' = line + 1 /\ call = "read" /\ pwm[Channel(line)] = 0
      BY <1>8 DEF Read, After, Channel, Channels
    <2>2. UNCHANGED <<pwm, on, seen, value, items>>
      BY <1>8 DEF Read
    <2>3. Consistent' = Consistent /\ WasOff' = WasOff /\ State(pwm)' = State(pwm)
      BY <2>2 DEF Consistent, WasOff, State, Lit, Dark
    <2> QED
      BY <2>1, <2>2, <2>3 DEF Channel
  <1>9. CASE switchon
    <2> SUFFICES ASSUME Reading PROVE ReadInv'
      BY <1>9 DEF switchon, interrupt
    <2>1. /\ on' = TRUE /\ pwm' = value /\ UNCHANGED <<value, items, line, call>>
          /\ seen' = seen \cup {<<State(value), TRUE>>}
      BY <1>9 DEF switchon, interrupt
    <2>2. <<State(pwm), on>>' \in seen'
      BY <2>1 DEF State, Lit
    <2>3. Consistent' => Consistent
      BY <2>1 DEF Consistent, State, Lit, Dark
    <2>4. WasOff => WasOff'
      BY <2>1 DEF WasOff
    <2>5. ASSUME Consistent, ~on PROVE WasOff
      BY <2>5, DarkIsOff DEF Consistent, WasOff
    <2>6. on => \A c \in Channels : pwm[c] \in {0, value[c]}
      BY DEF StillInv, Writing
    <2>7. ASSUME Consistent', ~WasOff'
          PROVE  \/ line' = 5 /\ pwm'["r"] > 0
                 \/ line' <= 6 /\ pwm'["g"] > 0
                 \/ pwm'["b"] > 0
      <3>1. on /\ Consistent /\ ~WasOff
        BY <2>3, <2>4, <2>5, <2>7
      <3>2. \/ line = 5 /\ pwm["r"] > 0
            \/ line <= 6 /\ pwm["g"] > 0
            \/ pwm["b"] > 0
        BY <3>1
      <3>3. pwm["r"] \in {0, value["r"]} /\ pwm["g"] \in {0, value["g"]} /\ pwm["b"] \in {0, value["b"]}
        BY <2>6, <3>1 DEF Channels
      <3> QED
        BY <2>1, <3>2, <3>3
    <2> QED
      BY <2>1, <2>2, <2>7
  <1>10. CASE switchoff
    <2> SUFFICES ASSUME Reading PROVE ReadInv'
      BY <1>10 DEF switchoff, interrupt
    <2>1. /\ on' = FALSE /\ pwm' = Dark /\ UNCHANGED <<value, items, line, call>>
          /\ seen' = seen \cup {<<State(Dark), FALSE>>}
      BY <1>10 DEF switchoff, interrupt
    <2>2. <<State(pwm), on>>' \in seen'
      BY <2>1 DEF State, Lit
    <2>3. WasOff'
      BY <2>1, DarkIsOff DEF WasOff
    <2> QED
      BY <2>1, <2>2, <2>3
  <1> QED
    BY <1>1, <1>2, <1>3, <1>4, <1>5, <1>6, <1>7, <1>8, <1>9, <1>10 DEF Next

\* What a read reports it has seen: a lit channel is the light now, and a read that
\* ends without one has seen the light off.
LEMMA ReportStep ==
  ASSUME IInv, TypeOK', Next
  PROVE  ReportInv'
  <1> USE DEF IInv, TypeOK, ReportInv
  <1>1. CASE \/ \E xs \in Writes : prv_rgb_write(xs)
             \/ prv_set_value \/ switchon \/ switchoff
    BY <1>1 DEF prv_rgb_write, prv_set_value, switchon, switchoff, interrupt, ReportedWasTrue
  <1>2. CASE item
    BY <1>2 DEF item, ReportedWasTrue
  <1>3. CASE Store \/ Test \/ Flag \/ Apply
    BY <1>3 DEF Store, Test, Flag, Apply, ReportedWasTrue
  <1>4. CASE Read
    <2>1. Reading /\ line \in 5 .. 7 /\ UNCHANGED <<pwm, on, seen, value, items>>
      BY <1>4 DEF Read, Reading
    <2>2. reported = "none" /\ items' = <<>>
      BY <2>1 DEF ReadInv
    <2>3. Consistent' = Consistent /\ WasOff' = WasOff
      BY <2>1 DEF Consistent, WasOff, State, Lit, Dark
    <2>4. CASE pwm[Channel(line)] > 0
      <3>1. reported' = "on" /\ line' = 0 /\ State(pwm) = "on"
        BY <1>4, <2>1, <2>4, ChannelType DEF Read, State, Lit
      <3>2. \E y \in seen' : y[1] = reported'
        BY <2>1, <3>1 DEF ReadInv
      <3> QED
        BY <2>2, <3>1, <3>2 DEF ReportedWasTrue
    <2>5. CASE ~(pwm[Channel(line)] > 0) /\ line = 7
      <3>1. reported' = "off" /\ line' = 0
        BY <1>4, <2>5 DEF Read, After
      <3>2. ~(pwm["b"] > 0)
        BY <2>5 DEF Channel
      <3>3. Consistent => WasOff
        BY <2>1, <2>5, <3>2 DEF ReadInv
      <3>4. Consistent' => \E y \in seen' : y[1] = reported'
        BY <2>3, <3>1, <3>3 DEF WasOff
      <3> QED
        BY <2>2, <3>1, <3>4 DEF ReportedWasTrue, Consistent
    <2>6. CASE ~(pwm[Channel(line)] > 0) /\ line # 7
      BY <1>4, <2>6 DEF Read, ReportedWasTrue
    <2> QED
      BY <2>4, <2>5, <2>6
  <1> QED
    BY <1>1, <1>2, <1>3, <1>4 DEF Next

\* IInv is an invariant.
LEMMA InvStep == IInv /\ [Next]_vars => IInv'
  <1> SUFFICES ASSUME IInv, [Next]_vars PROVE IInv'
    OBVIOUS
  <1>1. TypeOK'
    BY NextType DEF IInv
  <1>2. CASE Next
    BY <1>1, <1>2, StillStep, WriteStep, ReadStep, ReportStep DEF IInv
  <1>3. CASE UNCHANGED vars
    <2>1. StillInv' /\ WriteInv'
      BY <1>3 DEF vars, IInv, StillInv, WriteInv, Writing, Settled, Shown
    <2>2. ReadInv'
      BY <1>3 DEF vars, IInv, ReadInv, Reading, Consistent, WasOff, State, Lit, Dark
    <2>3. ReportInv'
      BY <1>3 DEF vars, IInv, ReportInv, ReportedWasTrue, State, Lit, Dark
    <2> QED
      BY <1>1, <2>1, <2>2, <2>3 DEF IInv
  <1> QED
    BY <1>2, <1>3

\* Hence every state of the light satisfies it.
LEMMA Invariance == Spec => []IInv
  <1> QED
    BY InitInv, InvStep, PTL DEF Spec

\* Between calls the pins are what the flag and the colour say, whatever writes and
\* buttons came before, unless the last call to write them was switched the other
\* way while it did; every later button or writing call ends that exception.
THEOREM LightShown == Spec => []PinsShowState
  <1>1. IInv => PinsShowState
    BY DEF IInv, StillInv, Writing, PinsShowState, AtRest
  <1> QED
    BY <1>1, Invariance, PTL

\* Wherever an interrupt tears a call, no channel of a light that is on keeps the
\* level of a colour it no longer has.
THEOREM NoStale == Spec => []NoStaleColour
  <1>1. IInv => NoStaleColour
    BY DEF IInv, StillInv, Writing, NoStaleColour, AtRest
  <1> QED
    BY <1>1, Invariance, PTL

\* What the three reads of resource 5850 report was the state of the light at some
\* moment between them, however many buttons are pressed meanwhile.
THEOREM ReportTrue == Spec => []ReportedWasTrue
  <1>1. IInv => ReportedWasTrue
    BY DEF IInv, ReportInv
  <1> QED
    BY <1>1, Invariance, PTL
=============================================================================
