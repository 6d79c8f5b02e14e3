-------------------------- MODULE RequestLifecycle --------------------------
(***************************************************************************)
(* What a scheduler of miniengine promises the client of a request, with   *)
(* no queue, no batch and no KV pool (miniengine/core.py, Request).        *)
(*                                                                         *)
(* A request is submitted once.  Its client reads a stream: the tokens     *)
(* that follow the prompt, each once and in order, at most maxNew of them, *)
(* then one end marker and nothing more.  A request may lose its place and *)
(* be run again (recompute), which its client cannot see.  A request may   *)
(* be refused, but only before its first token.                            *)
(*                                                                         *)
(* Tokens are named by their place in the request's sequence: the prompt   *)
(* is tokens 1 .. prompt, the first generated token is prompt + 1.         *)
(***************************************************************************)
EXTENDS Naturals, Sequences

CONSTANTS Requests,
          PromptLens,     \* the prompt lengths a client may send
          MaxNews         \* the max_new_tokens a client may ask for

VARIABLES asked,          \* asked[r]: what the client of r sent
          phase,          \* where the request is in its life
          stream          \* stream[r]: what its client has been sent

lifecycleVars == <<asked, phase, stream>>

\* TokenOutput(token_id=-1, finished=True), the end of a stream.
EndMark == 0

Init == /\ asked \in [Requests -> [prompt : PromptLens, maxNew : MaxNews]]
        /\ phase = [r \in Requests |-> "new"]
        /\ stream = [r \in Requests |-> <<>>]

Submit(r) == /\ phase[r] = "new"
             /\ phase' = [phase EXCEPT ![r] = "WAITING"]
             /\ UNCHANGED <<asked, stream>>

\* A batch of waiting requests starts running.
Start(S) == /\ \A r \in S : phase[r] = "WAITING"
            /\ phase' = [r \in Requests |-> IF r \in S THEN "RUNNING" ELSE phase[r]]
            /\ UNCHANGED <<asked, stream>>

Token(r) == asked[r].prompt + Len(stream[r]) + 1

\* A running request's client is sent the next token.
Emit(r) == /\ phase[r] = "RUNNING"
           /\ Len(stream[r]) + 1 < asked[r].maxNew
           /\ stream' = [stream EXCEPT ![r] = Append(@, Token(r))]
           /\ UNCHANGED <<asked, phase>>

\* The last token, whether a stop token or the maxNew-th, and the end.
EmitLast(r) == /\ phase[r] = "RUNNING"
               /\ Len(stream[r]) < asked[r].maxNew
               /\ stream' = [stream EXCEPT ![r] = @ \o <<Token(r), EndMark>>]
               /\ phase' = [phase EXCEPT ![r] = "FINISHED"]
               /\ UNCHANGED asked

\* A running request loses its place; its stream stays as it is.
Preempt(r) == /\ phase[r] = "RUNNING"
              /\ phase' = [phase EXCEPT ![r] = "WAITING"]
              /\ UNCHANGED <<asked, stream>>

\* A request that never ran is turned away with an empty stream.
Refuse(r) == /\ phase[r] = "WAITING"
             /\ stream[r] = <<>>
             /\ stream' = [stream EXCEPT ![r] = <<EndMark>>]
             /\ phase' = [phase EXCEPT ![r] = "FINISHED"]
             /\ UNCHANGED asked

Next == \/ \E r \in Requests : \/ Submit(r) \/ Emit(r) \/ EmitLast(r)
                               \/ Preempt(r) \/ Refuse(r)
        \/ \E S \in SUBSET Requests : Start(S)

Spec == Init /\ [][Next]_lifecycleVars

=============================================================================
