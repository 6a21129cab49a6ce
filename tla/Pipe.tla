-------------------------------- MODULE Pipe --------------------------------
(***************************************************************************)
(* What a stream promises those at its two ends: items come out in the     *)
(* order in which they were put in, each once; a pipe may be cut, and then *)
(* nothing more comes out; it is complete only when everything has come    *)
(* out, and then nothing more is put in.                                   *)
(***************************************************************************)
EXTENDS Naturals, Sequences

CONSTANTS Pipes, Items

VARIABLES input, output,   \* what was put in, and what has come out
          state            \* "open", "complete" or "cut"

PipeStart ==
  /\ input = [p \in Pipes |-> <<>>]
  /\ output = [p \in Pipes |-> <<>>]
  /\ state = [p \in Pipes |-> "open"]

\* Also into a pipe that is cut: those who put do not learn of it.
Put(p) ==
  /\ state[p] # "complete"
  /\ \E i \in Items : input' = [input EXCEPT ![p] = Append(@, i)]
  /\ UNCHANGED <<output, state>>

\* Some more of it comes out.
Take(p) ==
  /\ state[p] = "open"
  /\ \E n \in Len(output[p])..Len(input[p]) : output' = [output EXCEPT ![p] = SubSeq(input[p], 1, n)]
  /\ UNCHANGED <<input, state>>

Finish(p) ==
  /\ state[p] = "open" /\ output[p] = input[p]
  /\ state' = [state EXCEPT ![p] = "complete"]
  /\ UNCHANGED <<input, output>>

CutOff(p) ==
  /\ state[p] = "open"
  /\ state' = [state EXCEPT ![p] = "cut"]
  /\ UNCHANGED <<input, output>>

PipeNext == \E p \in Pipes : Put(p) \/ Take(p) \/ Finish(p) \/ CutOff(p)

PipeSpec == PipeStart /\ [][PipeNext]_<<input, output, state>>
=============================================================================
