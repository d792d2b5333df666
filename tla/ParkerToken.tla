------------------------------ MODULE ParkerToken ------------------------------
(***************************************************************************)
(* What Parker promises (src/src/parker.rs:24-42): a token that unpark      *)
(* makes available, that a park blocks until it can consume, and that a     *)
(* park_timeout waits for but may give up.                                  *)
(***************************************************************************)

VARIABLES token,   \* is the token available
          call     \* the call of the parking thread: none, a kind of park, or one
                   \* that is over but for its return

vars == <<token, call>>

Init == token = FALSE /\ call = "none"

Unpark == token' = TRUE /\ UNCHANGED call

Call(kind) ==
  /\ call = "none"
  /\ call' = kind
  /\ UNCHANGED token

\* A call that finds the token returns at once.
TakeAtOnce ==
  /\ call = "none"
  /\ token /\ ~token'
  /\ UNCHANGED call

Take ==
  /\ call \in {"park", "timeout"}
  /\ token /\ ~token'
  /\ call' = "over"

\* Only a park_timeout ends without the token.
GiveUp ==
  /\ call = "timeout"
  /\ call' = "over"
  /\ UNCHANGED token

Return ==
  /\ call = "over"
  /\ call' = "none"
  /\ UNCHANGED token

Next ==
  \/ Unpark \/ TakeAtOnce \/ Take \/ GiveUp \/ Return
  \/ \E kind \in {"park", "timeout"} : Call(kind)

Spec == Init /\ [][Next]_vars
===============================================================================
