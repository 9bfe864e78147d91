----------------------------- MODULE TokenStream -----------------------------
(***************************************************************************)
(* What Decode-Fabric promises the reader of a sequence: an append-only    *)
(* log of decode steps.  A stream is opened once, with an allowance; each  *)
(* step continues from the state digest the one before it left, and the    *)
(* log never outgrows the allowance; an ended stream never changes again.  *)
(* Nothing is said of workers, attempts, grants or time.                   *)
(***************************************************************************)
EXTENDS Integers, Sequences

CONSTANT Ids           \* the streams there may be

VARIABLE stream        \* id -> [phase, allowance, log]; a log entry is [pre, post]

Unopened == [phase |-> "unopened", allowance |-> 0, log |-> <<>>]

\* a and b are the stream before and after.
Open(a, b) ==
  /\ a = Unopened
  /\ b.phase = "open"
  /\ b.allowance \in Nat
  /\ b.log = <<>>

\* One more step; the stream may end with it.
Emit(a, b) ==
  LET n == Len(a.log)
  IN /\ a.phase = "open"
     /\ b.phase \in {"open", "ended"}
     /\ b.allowance = a.allowance
     /\ Len(b.log) = n + 1
     /\ n + 1 <= a.allowance
     /\ \A k \in 1 .. n : b.log[k] = a.log[k]
     /\ n > 0 => b.log[n + 1].pre = a.log[n].post

End(a, b) == a.phase = "open" /\ b = [a EXCEPT !.phase = "ended"]

Init == stream = [i \in Ids |-> Unopened]

\* Any number of streams may move at once, each by one step.
Next ==
  \A i \in Ids :
    \/ stream'[i] = stream[i]
    \/ Open(stream[i], stream'[i])
    \/ Emit(stream[i], stream'[i])
    \/ End(stream[i], stream'[i])

Spec == Init /\ [][Next]_stream

=============================================================================
