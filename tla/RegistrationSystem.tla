-------------------------- MODULE RegistrationSystem --------------------------
(***************************************************************************)
(* The client of Registration.tla together with the LWM2M servers it       *)
(* registers with.  The servers are not in the repository: they are        *)
(* modelled by what the client's code expects of them.  A server creates a *)
(* registration on a POST, replacing the one it holds, renews it on a PUT  *)
(* to the location it gave last, handles a retransmission once, and drops  *)
(* a registration whose lifetime runs out, counted from the request it     *)
(* handled last.                                                           *)
(*                                                                         *)
(* The client counts from the moment it reads the answer instead.  An      *)
(* answer is on its way for at most MaxDelay seconds.  A request reaches   *)
(* its server while the client still waits for it: one that comes later    *)
(* only renews what the client believes lost, and the next POST is a       *)
(* lifetime away.                                                          *)
(***************************************************************************)
EXTENDS Registration

CONSTANT MaxDelay   \* seconds from a server's decision to the client reading it

ASSUME MaxDelayAssumption == MaxDelay \in Nat

VARIABLES
  remaining,  \* seconds until a server drops the registration it holds, 0: none
  holder,     \* the POST that created the registration a server holds last
  decision    \* what the server did of each request

systemVars == <<vars, remaining, holder, decision>>

SystemInit ==
  /\ Init
  /\ remaining = [s \in Servers |-> 0]
  /\ holder = [s \in Servers |-> None]
  /\ decision = [x \in Requests |-> "unseen"]

\* The request on the list at x is the same before and after the step.
Stays(x) == Live(tx[x]) /\ Live(tx'[x]) /\ tx'[x].retrans_counter >= tx[x].retrans_counter

ForgetDecisions ==
  decision' = [x \in Requests |-> IF Stays(x) THEN decision[x] ELSE "unseen"]

\* A datagram of request x reaches its server for the first time.
Decide(x) ==
  LET s == x[1]
      renews == remaining[s] > 0 /\ location[s] = holder[s]
  IN  /\ Live(tx[x]) /\ tx[x].retrans_counter > 0 /\ decision[x] = "unseen"
      /\ \/ /\ x[2] = "register" \/ renews
            /\ decision' = [decision EXCEPT ![x] = "accepted"]
            /\ remaining' = [remaining EXCEPT ![s] = Lifetime[s]]
            /\ holder' = IF x[2] = "register" THEN [holder EXCEPT ![s] = x] ELSE holder
         \/ /\ x[2] = "update" /\ ~renews
            /\ decision' = [decision EXCEPT ![x] = "refused"]
            /\ UNCHANGED <<remaining, holder>>
      /\ UNCHANGED vars

\* What the server sends about x once it has decided.
Sends(x, r) ==
  \/ r.type = "ACK" /\ r.code = "0.00"
  \/ decision[x] = "accepted" /\ r.code = (IF x[2] = "register" THEN "2.01" ELSE "2.04")
  \/ decision[x] = "refused" /\ r.code = "4.04"

Answer(x, r) ==
  /\ decision[x] # "unseen"
  /\ Sends(x, r)
  /\ decision[x] = "accepted" => remaining[x[1]] + MaxDelay >= Lifetime[x[1]]
  /\ lwm2m_handle_packet(x, r)
  /\ ForgetDecisions
  /\ UNCHANGED <<remaining, holder>>

SystemStep == AnyStep /\ ForgetDecisions /\ UNCHANGED <<remaining, holder>>

Restart == lwm2m_start /\ ForgetDecisions /\ UNCHANGED <<remaining, holder>>

SystemTick ==
  /\ Tick
  /\ remaining' = [s \in Servers |-> IF remaining[s] > 0 THEN remaining[s] - 1 ELSE 0]
  /\ UNCHANGED <<holder, decision>>

SystemNext ==
  \/ SystemStep
  \/ \E x \in Requests : Decide(x)
  \/ \E x \in Requests : \E r \in Replies(x, Codes, {None}) : Answer(x, r)
  \/ Restart
  \/ SystemTick

SystemSpec == SystemInit /\ [][SystemNext]_systemVars

-----------------------------------------------------------------------------
(* Properties. *)

\* A client that believes it is registered updates the registration its server
\* holds, not one that a later POST of its own has replaced.
LocationCurrent ==
  \A s \in Servers : status[s] \in {"REGISTERED", "REG_UPDATE_PENDING"} =>
    location[s] = holder[s]

\* "update 15s earlier to have a chance to resend": the update and its first
\* retransmission are sent while the server still holds the registration.
ChanceToResend ==
  [][\A x \in Requests :
       /\ x[2] = "update" /\ decision[x] = "unseen"
       /\ Transmitted(x) /\ tx'[x].retrans_counter <= 3
       => remaining[x[1]] > 0]_systemVars
=============================================================================
