--------------------------- MODULE RegistrationClock ---------------------------
(***************************************************************************)
(* Registration on the board's clock.  lwm2m_gettime (utils.c) reads the   *)
(* real-time clock, and a server that writes the Current Time of the       *)
(* Device object sets that clock (object_device.c): every date the client  *)
(* keeps is then compared with a clock that has moved.                     *)
(***************************************************************************)
EXTENDS Registration

CONSTANTS
  Jumps,   \* seconds by which a write may move the clock
  Horizon  \* how far from a date of the client the clock may be set

ASSUME ClockAssumption == Jumps \subseteq Int \ {0} /\ Horizon \in Nat

\* The ages a server may have on the clock moved by d: an age of MaxAge stands for
\* all that are no less, so it may stay there or be found again on the way back.
Moved(s, d) ==
  LET a == age[s] + d
  IN  IF age[s] = MaxAge(s) THEN (IF d < 0 THEN a ELSE age[s]) .. MaxAge(s)
      ELSE {IF a < MaxAge(s) THEN a ELSE MaxAge(s)}

\* set_time(now + d), with any time a server cares to write: nothing in the client
\* is adjusted.
set_time(d) ==
  /\ age' \in [Servers -> UNION {Moved(s, d) : s \in Servers}]
  /\ \A s \in Servers : age'[s] \in Moved(s, d) /\ age'[s] >= -Horizon
  /\ tx' = [x \in Requests |->
              IF Live(tx[x]) /\ tx[x].retrans_counter > 0 THEN [tx[x] EXCEPT !.wait = @ - d]
                                                         ELSE tx[x]]
  /\ \A x \in Requests : tx'[x].wait \in -Horizon .. Horizon
  /\ UNCHANGED <<status, location, inFlight, lag>>

ClockNext ==
  \/ Next
  \/ \E d \in Jumps : set_time(d)

ClockSpec == Init /\ [][ClockNext]_vars /\ Fairness
=============================================================================
