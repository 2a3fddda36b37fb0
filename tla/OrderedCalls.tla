---------------------------- MODULE OrderedCalls ----------------------------
(***************************************************************************)
(* What the transport promises one client, without connections, lines,     *)
(* goroutines or deadlines: calls that are made one after the other and    *)
(* numbered; each request is worked on at most once, one at a time and in  *)
(* the order of the calls, also when its call was given up; and what a     *)
(* call is told is how its own request ended, or that the answer is lost.  *)
(* Who works on the requests may stop in the middle of one; no other is    *)
(* worked on after that.                                                   *)
(***************************************************************************)
EXTENDS Integers

CONSTANTS
  Ids,       \* the numbers of calls, from 1 on
  Outcomes   \* how the work on a request ends

VARIABLES
  made,      \* how many calls were made
  waiting,   \* the requests that were sent and not taken yet
  handling,  \* the request that is worked on, or 0
  ended,     \* how the work on each request ended
  told       \* what each call returned

vars == <<made, waiting, handling, ended, told>>

Init ==
  /\ made = 0
  /\ waiting = {}
  /\ handling = 0
  /\ ended = [i \in Ids |-> "none"]
  /\ told = [i \in Ids |-> "none"]

(* The last call has returned. *)
Returned == made > 0 => told[made] # "none"

Send ==
  /\ Returned
  /\ made + 1 \in Ids
  /\ made' = made + 1
  /\ waiting' = waiting \cup {made + 1}
  /\ UNCHANGED <<handling, ended, told>>

(* A call whose request does not get away is never worked on. *)
SendInVain ==
  /\ Returned
  /\ made + 1 \in Ids
  /\ made' = made + 1
  /\ told' = [told EXCEPT ![made + 1] = "lost"]
  /\ UNCHANGED <<waiting, handling, ended>>

Begin(i) ==
  /\ handling = 0
  /\ \A j \in Ids : ended[j] # "cut"
  /\ \A j \in waiting : i <= j
  /\ handling' = i
  /\ waiting' = waiting \ {i}
  /\ UNCHANGED <<made, ended, told>>

End(outcome) ==
  /\ handling # 0
  /\ ended' = [ended EXCEPT ![handling] = outcome]
  /\ handling' = 0
  /\ UNCHANGED <<made, waiting, told>>

Cut ==
  /\ handling # 0
  /\ ended' = [ended EXCEPT ![handling] = "cut"]
  /\ handling' = 0
  /\ UNCHANGED <<made, waiting, told>>

Tell ==
  /\ ~Returned
  /\ ended[made] \in Outcomes
  /\ told' = [told EXCEPT ![made] = ended[made]]
  /\ UNCHANGED <<made, waiting, handling, ended>>

GiveUp ==
  /\ ~Returned
  /\ told' = [told EXCEPT ![made] = "lost"]
  /\ UNCHANGED <<made, waiting, handling, ended>>

Next ==
  \/ Send \/ SendInVain \/ Tell \/ GiveUp \/ Cut
  \/ \E i \in waiting : Begin(i)
  \/ \E outcome \in Outcomes : End(outcome)

Spec == Init /\ [][Next]_vars

=============================================================================
