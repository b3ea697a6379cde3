---------------------------- MODULE LeakyBucket ----------------------------
(***************************************************************************)
(* What the rate limiter promises, said without its map, its timestamps    *)
(* or its cleanup.  Every client that ever was or will be has a bucket.    *)
(* The debt of a client is what it has spent and not yet earned back: a    *)
(* granted request adds Cost to it, a tick of the clock takes Rate off it. *)
(* A request is granted exactly when the debt it would leave is at most    *)
(* Burst.  Only a client without any debt, one the limiter need not        *)
(* remember, may be turned away for another reason.                        *)
(***************************************************************************)
EXTENDS Integers

CONSTANTS
  Clients,   \* the keys callers ask for: client addresses
  Callers,   \* the goroutines that call Allow
  Rate,      \* what a tick of the clock takes off a debt
  Cost,      \* what a granted request adds to it
  Burst      \* the largest debt a client may have

VARIABLES
  debt,      \* debt[c]: what client c has spent and not earned back
  asking,    \* asking[t]: the client for which t called last
  reply      \* reply[t]: "none" before t's first call, then "pending",
             \* then how the call ended

bucketVars == <<debt, asking, reply>>

Init ==
  /\ debt = [c \in Clients |-> 0]
  /\ asking \in [Callers -> Clients]
  /\ reply = [t \in Callers |-> "none"]

Call(t, c) ==
  /\ reply[t] # "pending"
  /\ asking' = [asking EXCEPT ![t] = c]
  /\ reply' = [reply EXCEPT ![t] = "pending"]
  /\ UNCHANGED debt

Answer(t, verdict) ==
  /\ reply[t] = "pending"
  /\ reply' = [reply EXCEPT ![t] = verdict]
  /\ UNCHANGED asking

Grant(t) ==
  /\ debt[asking[t]] + Cost <= Burst
  /\ debt' = [debt EXCEPT ![asking[t]] = @ + Cost]
  /\ Answer(t, "allowed")

Limit(t) ==
  /\ debt[asking[t]] + Cost > Burst
  /\ UNCHANGED debt
  /\ Answer(t, "limited")

TurnAway(t) ==
  /\ debt[asking[t]] = 0
  /\ UNCHANGED debt
  /\ Answer(t, "full")

Tick ==
  /\ debt' = [c \in Clients |-> IF debt[c] > Rate THEN debt[c] - Rate ELSE 0]
  /\ UNCHANGED <<asking, reply>>

Next ==
  \/ Tick
  \/ \E t \in Callers :
       \/ \E c \in Clients : Call(t, c)
       \/ Grant(t)
       \/ Limit(t)
       \/ TurnAway(t)

Spec == Init /\ [][Next]_bucketVars
=============================================================================
