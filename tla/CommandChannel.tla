--------------------------- MODULE CommandChannel ---------------------------
(***************************************************************************)
(* What the command link promises: a channel that may lose commands, but   *)
(* neither alters, repeats, reorders nor invents one.                      *)
(***************************************************************************)
EXTENDS Naturals, Sequences

CONSTANT Message

VARIABLES
  sent, \* every message given to the channel
  got   \* every message taken from it: [number |-> its place in sent, message]

Init == sent = <<>> /\ got = <<>>

Send(message) == sent' = Append(sent, message) /\ UNCHANGED got

(* The next message taken is any one sent after the last one taken.        *)
Take(number) ==
  /\ \A n \in 1 .. Len(got) : got[n].number < number
  /\ got' = Append(got, [number |-> number, message |-> sent[number]])
  /\ UNCHANGED sent

Next == (\E message \in Message : Send(message)) \/ (\E n \in 1 .. Len(sent) : Take(n))

Spec == Init /\ [][Next]_<<sent, got>>
=============================================================================
