----------------------------- MODULE AgentLoop -----------------------------
(***************************************************************************)
(* The agent's double loop (crates/mcode-agent/src/agent.rs, with the      *)
(* response cycle and the tool dispatch of turn.rs).                       *)
(*                                                                         *)
(* One task runs prompt(); handles queue steering and follow-up messages,  *)
(* clear the queues and abort from other tasks, between any two steps of   *)
(* the loop.  A response is what its stream ends with, a tool call what    *)
(* its dispatch returns; the hooks pass everything through, as the         *)
(* production runner does.                                                 *)
(***************************************************************************)
EXTENDS Naturals, Sequences, FiniteSets

CONSTANTS
  MaxTurns,       \* bound on the prompts
  MaxQueued,      \* bound on the messages queued by handles
  MaxResponses,   \* bound on the responses with tool calls, and on those without
  MaxCalls        \* bound on the tool calls of a response

ASSUME LoopAssumption ==
  /\ MaxTurns \in Nat /\ MaxQueued \in Nat
  /\ MaxResponses \in Nat /\ MaxCalls \in Nat

VARIABLES
  steerQueue,     \* AgentControl.steer_queue
  followupQueue,  \* AgentControl.followup_queue
  active,         \* active_cancel holds the token of the turn
  aborted,        \* the token of the turn is cancelled
  mode,           \* Agent.queue_mode
  streaming,      \* AgentState.is_streaming
  messages,       \* AgentState.messages
  phase,          \* where the loop is
  pending,        \* its local variables ...
  steered,
  hasToolCalls,
  calls,          \* ... the tool calls of the response that have no result yet
  turn,           \* history: the number of prompts
  turnStart,      \* history: messages when the turn started
  outcome,        \* what the last prompt returned
  queued,         \* history: the messages queued, by their kind
  cleared,        \* history: the queued messages that were cleared
  late,           \* history: steering queued since the drain before a follow-up
  clearing        \* a clear_queues call between its two locks

controlVars == <<steerQueue, followupQueue, active, aborted>>
localVars == <<pending, steered, hasToolCalls, calls>>
queueHistory == <<queued, cleared, clearing>>
loopVars == <<controlVars, mode, streaming, messages, phase, localVars, turn, turnStart, outcome,
              queueHistory, late>>

Modes == {"All", "OneAtATime"}
Outcomes == {"Completed", "Steered", "Aborted", "Error"}

(* Messages: user input (a prompt, or the n-th message queued), responses  *)
(* with a number of tool calls, and the result of a tool call.             *)
Input(n) == [role |-> "user", n |-> n]
Response(k) == [role |-> "assistant", n |-> k]
Result(k) == [role |-> "tool", n |-> k]
Message == [role : {"user", "assistant", "tool"}, n : Nat]
Queued(m) == m.role = "user" /\ m.n > 0

LoopInit ==
  /\ steerQueue = <<>> /\ followupQueue = <<>>
  /\ active = FALSE /\ aborted = FALSE
  /\ mode = "OneAtATime"
  /\ streaming = FALSE
  /\ messages = <<>>
  /\ phase = "idle"
  /\ pending = <<>> /\ steered = FALSE /\ hasToolCalls = FALSE /\ calls = <<>>
  /\ turn = 0 /\ turnStart = 0
  /\ outcome = "Completed"
  /\ queued = <<>> /\ cleared = {} /\ clearing = FALSE
  /\ late = 0

-----------------------------------------------------------------------------
(* AgentHandle, from other tasks.                                          *)

Queue(kind) == queued' = Append(queued, kind) /\ Len(queued) < MaxQueued

Steer ==
  /\ Queue("steer")
  /\ steerQueue' = Append(steerQueue, Input(Len(queued) + 1))
  /\ late' = IF phase = "followUp" THEN late + 1 ELSE 0
  /\ UNCHANGED <<followupQueue, active, aborted, mode, streaming, messages, phase, localVars,
                 turn, turnStart, outcome, cleared, clearing>>

FollowUp ==
  /\ Queue("followUp")
  /\ followupQueue' = Append(followupQueue, Input(Len(queued) + 1))
  /\ UNCHANGED <<steerQueue, active, aborted, mode, streaming, messages, phase, localVars,
                 turn, turnStart, outcome, cleared, clearing, late>>

\* abort() by a handle, or the caller cancels TurnEnv::cancel.
Abort ==
  /\ active /\ ~aborted
  /\ aborted' = TRUE
  /\ UNCHANGED <<steerQueue, followupQueue, active, mode, streaming, messages, phase, localVars,
                 turn, turnStart, outcome, queueHistory, late>>

Numbers(s) == {s[i].n : i \in 1..Len(s)}

\* clear_queues(): the one queue, then the other.
ClearSteer ==
  /\ ~clearing
  /\ cleared' = cleared \cup Numbers(steerQueue)
  /\ steerQueue' = <<>> /\ clearing' = TRUE
  /\ UNCHANGED <<followupQueue, active, aborted, mode, streaming, messages, phase, localVars,
                 turn, turnStart, outcome, queued, late>>

ClearFollowup ==
  /\ clearing
  /\ cleared' = cleared \cup Numbers(followupQueue)
  /\ followupQueue' = <<>> /\ clearing' = FALSE
  /\ UNCHANGED <<steerQueue, active, aborted, mode, streaming, messages, phase, localVars,
                 turn, turnStart, outcome, queued, late>>

\* set_queue_mode(), which needs the agent to be idle.
SetQueueMode ==
  /\ phase = "idle" /\ turn < MaxTurns
  /\ mode' \in Modes \ {mode}
  /\ UNCHANGED <<controlVars, streaming, messages, phase, localVars, turn, turnStart, outcome,
                 queueHistory, late>>

-----------------------------------------------------------------------------
(* prompt(), run_turn and double_loop.                                     *)

loopControl == <<active, mode, streaming, turn, turnStart, queueHistory>>

Push(new) == messages' = messages \o new

\* Mutant of Drained: a boundary takes the whole queue.
Drained_Whole(queue) == queue

\* The messages a boundary takes from a queue, and those it leaves.
Drained(queue) == IF mode = "All" \/ queue = <<>> THEN queue ELSE <<Head(queue)>>
Left(queue) == IF mode = "All" \/ queue = <<>> THEN <<>> ELSE Tail(queue)

\* A fresh child of the caller's token becomes active, and the prompt is
\* pushed.  The caller's token may be cancelled already.
Prompt ==
  /\ phase = "idle" /\ turn < MaxTurns
  /\ active' = TRUE /\ aborted' \in BOOLEAN
  /\ streaming' = TRUE
  /\ Push(<<Input(0)>>)
  /\ turn' = turn + 1 /\ turnStart' = Len(messages)
  /\ phase' = "begin"
  /\ UNCHANGED <<steerQueue, followupQueue, mode, localVars, outcome, queueHistory, late>>

\* Steering that was queued while the agent was idle.
DrainFirst ==
  /\ phase = "begin"
  /\ pending' = Drained(steerQueue) /\ steerQueue' = Left(steerQueue)
  /\ steered' = (pending' # <<>>)
  /\ hasToolCalls' = TRUE
  /\ phase' = "inject"
  /\ UNCHANGED <<followupQueue, aborted, messages, calls, outcome, loopControl, late>>

Abandon(o) == phase' = "end" /\ outcome' = o

\* The pending input, and the check before the request.
Inject ==
  /\ phase = "inject"
  /\ Push(pending) /\ pending' = <<>>
  /\ IF aborted THEN Abandon("Aborted") ELSE phase' = "request" /\ UNCHANGED outcome
  /\ UNCHANGED <<steerQueue, followupQueue, aborted, steered, hasToolCalls, calls,
                 loopControl, late>>

\* stream_assistant up to the call of the provider: two more checks, and the
\* validation of the request.
Request ==
  /\ phase = "request"
  /\ \/ aborted /\ Abandon("Aborted")
     \/ ~aborted /\ Abandon("Error")
     \/ ~aborted /\ phase' = "stream" /\ UNCHANGED outcome
  /\ UNCHANGED <<controlVars, messages, localVars, loopControl, late>>

\* Mutant of StreamCancelled: the request's token is no child of the turn's.
StreamCancelled_Detached == FALSE

\* The stream ends with Cancelled, which a provider may also report itself.
StreamCancelled ==
  /\ phase = "stream"
  /\ Abandon("Aborted")
  /\ UNCHANGED <<controlVars, messages, localVars, loopControl, late>>

\* Setup fails, or the stream ends with an error.
StreamFails ==
  /\ phase = "stream"
  /\ Abandon("Error")
  /\ UNCHANGED <<controlVars, messages, localVars, loopControl, late>>

Responses == {i \in 1..Len(messages) : messages[i].role = "assistant"}

\* Done with k tool calls.  An event that is queued wins over cancellation.
StreamDone(k) ==
  /\ phase = "stream" /\ Cardinality(Responses) < MaxResponses
  /\ Push(<<Response(k)>>)
  /\ calls' = [i \in 1..k |-> i]
  /\ hasToolCalls' = (k > 0)
  /\ phase' = IF k > 0 THEN "dispatch" ELSE "drain"
  /\ UNCHANGED <<controlVars, pending, steered, outcome, loopControl, late>>

Results(ks) == [i \in 1..Len(ks) |-> Result(ks[i])]

\* A response cut at the token limit: none of its calls is executed.
Truncated ==
  /\ phase = "dispatch" /\ calls # <<>> /\ Head(calls) = 1
  /\ Push(Results(calls)) /\ calls' = <<>>
  /\ phase' = "drain"
  /\ UNCHANGED <<controlVars, pending, steered, hasToolCalls, outcome, loopControl, late>>

\* Mutant of Dispatch: an abort leaves the calls that are left unanswered.
Dispatch_Unanswered ==
  /\ phase = "dispatch" /\ calls # <<>>
  /\ IF aborted
     THEN calls' = <<>> /\ Abandon("Aborted") /\ UNCHANGED messages
     ELSE phase' = "tool" /\ UNCHANGED <<messages, calls, outcome>>
  /\ UNCHANGED <<controlVars, pending, steered, hasToolCalls, loopControl, late>>

\* The check before each call; an abort answers the calls that are left.
Dispatch ==
  /\ phase = "dispatch" /\ calls # <<>>
  /\ IF aborted
     THEN Push(Results(calls)) /\ calls' = <<>> /\ Abandon("Aborted")
     ELSE phase' = "tool" /\ UNCHANGED <<messages, calls, outcome>>
  /\ UNCHANGED <<controlVars, pending, steered, hasToolCalls, loopControl, late>>

\* dispatch_tool_call returns: whatever happened to the tool, there is a
\* result.
ToolReturns ==
  /\ phase = "tool"
  /\ Push(<<Result(Head(calls))>>) /\ calls' = Tail(calls)
  /\ phase' = IF calls' = <<>> THEN "drain" ELSE "dispatch"
  /\ UNCHANGED <<controlVars, pending, steered, hasToolCalls, outcome, loopControl, late>>

\* Mutant of DrainSteer: only a response without calls ends a cycle.
DrainSteer_Stops ==
  /\ phase = "drain"
  /\ pending' = Drained(steerQueue) /\ steerQueue' = Left(steerQueue)
  /\ steered' = (steered \/ pending' # <<>>)
  /\ phase' = IF hasToolCalls THEN "inject" ELSE "followUp"
  /\ UNCHANGED <<followupQueue, aborted, messages, hasToolCalls, calls, outcome,
                 loopControl, late>>

\* Mutant of DrainSteer: steering that comes after the first response counts
\* as a follow-up does.
DrainSteer_Forgets ==
  /\ phase = "drain"
  /\ pending' = Drained(steerQueue) /\ steerQueue' = Left(steerQueue)
  /\ phase' = IF hasToolCalls \/ pending' # <<>> THEN "inject" ELSE "followUp"
  /\ UNCHANGED <<followupQueue, aborted, messages, steered, hasToolCalls, calls, outcome,
                 loopControl, late>>

\* Steering after a response and its calls, and the condition of the inner
\* loop.  The stop gate always passes.
DrainSteer ==
  /\ phase = "drain"
  /\ pending' = Drained(steerQueue) /\ steerQueue' = Left(steerQueue)
  /\ steered' = (steered \/ pending' # <<>>)
  /\ phase' = IF hasToolCalls \/ pending' # <<>> THEN "inject" ELSE "followUp"
  /\ UNCHANGED <<followupQueue, aborted, messages, hasToolCalls, calls, outcome,
                 loopControl, late>>

\* Mutant of DrainFollowup: the messages are looked at and left in the queue.
DrainFollowup_Keeps ==
  /\ phase = "followUp"
  /\ late' = 0
  /\ pending' = Drained(followupQueue) /\ UNCHANGED followupQueue
  /\ IF pending' = <<>>
     THEN Abandon(IF steered THEN "Steered" ELSE "Completed") /\ UNCHANGED hasToolCalls
     ELSE phase' = "inject" /\ hasToolCalls' = TRUE /\ UNCHANGED outcome
  /\ UNCHANGED <<steerQueue, aborted, messages, steered, calls, loopControl>>

\* The agent would stop: a follow-up pushes it forward, or the turn is over.
DrainFollowup ==
  /\ phase = "followUp"
  /\ late' = 0
  /\ pending' = Drained(followupQueue) /\ followupQueue' = Left(followupQueue)
  /\ IF pending' = <<>>
     THEN Abandon(IF steered THEN "Steered" ELSE "Completed") /\ UNCHANGED hasToolCalls
     ELSE phase' = "inject" /\ hasToolCalls' = TRUE /\ UNCHANGED outcome
  /\ UNCHANGED <<steerQueue, aborted, messages, steered, calls, loopControl>>

\* Mutant of End: the token stays active.
End_StaysActive ==
  /\ phase = "end"
  /\ streaming' = FALSE
  /\ aborted' = FALSE /\ steered' = FALSE /\ hasToolCalls' = FALSE
  /\ phase' = "idle"
  /\ UNCHANGED <<steerQueue, followupQueue, active, mode, messages, pending, calls, turn,
                 turnStart, outcome, queueHistory, late>>

\* TurnEnded is emitted, and the agent is idle again.
End ==
  /\ phase = "end"
  /\ streaming' = FALSE /\ active' = FALSE
  /\ aborted' = FALSE /\ steered' = FALSE /\ hasToolCalls' = FALSE
  /\ phase' = "idle"
  /\ UNCHANGED <<steerQueue, followupQueue, mode, messages, pending, calls, turn, turnStart,
                 outcome, queueHistory, late>>

-----------------------------------------------------------------------------
Handles == Steer \/ FollowUp \/ Abort \/ ClearSteer \/ ClearFollowup

Loop ==
  \/ DrainFirst \/ Inject \/ Request \/ Truncated \/ Dispatch
  \/ DrainSteer \/ DrainFollowup \/ End

StreamEnds == StreamCancelled \/ StreamFails \/ \E k \in 0..MaxCalls : StreamDone(k)

LoopNext == Handles \/ SetQueueMode \/ Prompt \/ Loop \/ StreamEnds \/ ToolReturns

(* The task runs what it can run.  A provider or a tool may take for ever, *)
(* except after cancellation: the stream then ends by itself               *)
(* (EventStream), and tools are given the token to watch.                  *)
LoopFairness ==
  /\ WF_loopVars(Loop)
  /\ WF_loopVars(aborted /\ StreamCancelled)
  /\ WF_loopVars(aborted /\ ToolReturns)

LoopSpec == LoopInit /\ [][LoopNext]_loopVars /\ LoopFairness

-----------------------------------------------------------------------------
LoopTypeOK ==
  /\ steerQueue \in Seq(Message) /\ followupQueue \in Seq(Message)
  /\ active = (phase # "idle") /\ streaming = active
  /\ aborted \in BOOLEAN
  /\ mode \in Modes
  /\ messages \in Seq(Message) /\ pending \in Seq(Message)
  /\ phase \in {"idle", "begin", "inject", "request", "stream", "dispatch", "tool", "drain",
             "followUp", "end"}
  /\ steered \in BOOLEAN /\ hasToolCalls \in BOOLEAN
  /\ calls \in Seq(1..MaxCalls)
  /\ turn \in 0..MaxTurns /\ turnStart \in Nat
  /\ outcome \in Outcomes
  /\ queued \in Seq({"steer", "followUp"}) /\ Len(queued) <= MaxQueued
  /\ cleared \subseteq 1..Len(queued) /\ clearing \in BOOLEAN
  /\ late \in 0..MaxQueued

(* "Every announced tool call must have a corresponding ToolResult before  *)
(* the next request": the results follow their response in the order of    *)
(* its calls, in a history a turn has left too, however it ended.          *)
CallsAnswered ==
  /\ phase \notin {"dispatch", "tool"} => calls = <<>>
  /\ \A i \in Responses :
       LET open == IF \E j \in Responses : j > i THEN 0 ELSE Len(calls)
           answered == messages[i].n - open
       IN  /\ \A k \in 1..answered : i + k <= Len(messages) /\ messages[i + k] = Result(k)
           /\ i + answered < Len(messages) => messages[i + answered + 1].role # "tool"

(* A message that is queued is in one place once, until it is cleared: in  *)
(* its queue, among the pending input, or in the history, across turns     *)
(* that abort or fail.                                                     *)
DeliveredOnce ==
  LET everywhere == messages \o pending \o steerQueue \o followupQueue IN
  \A n \in 1..Len(queued) :
    Cardinality({i \in 1..Len(everywhere) : everywhere[i] = Input(n)})
      = IF n \in cleared THEN 0 ELSE 1

(* Each queue is delivered in order; in a OneAtATime turn "each queued     *)
(* message its own model boundary", so no two of them are neighbours.      *)
BoundariesKept ==
  /\ LET delivered == messages \o pending IN
     \A i, j \in 1..Len(delivered) :
       /\ i < j /\ Queued(delivered[i]) /\ Queued(delivered[j])
       /\ queued[delivered[i].n] = queued[delivered[j].n]
       => delivered[i].n < delivered[j].n
  /\ streaming /\ mode = "OneAtATime" =>
       \A i \in (turnStart + 1)..(Len(messages) - 1) :
         ~(Queued(messages[i]) /\ messages[i + 1].role = "user")

(* When the loop asks for follow-ups, every steering message left was      *)
(* queued after the drain before: steering is ahead of any follow-up.      *)
SteeringFirst == phase = "followUp" => Len(steerQueue) <= late

(* A turn that is not cut short ends Steered exactly when it delivered     *)
(* steering.                                                               *)
SteeredOutcome ==
  phase = "end" /\ outcome \in {"Completed", "Steered"} =>
    (outcome = "Steered" <=>
       \E i \in (turnStart + 1)..Len(messages) :
         Queued(messages[i]) /\ queued[messages[i].n] = "steer")

(* abort() ends the turn.                                                  *)
AbortStops == active /\ aborted ~> phase = "idle"

(* ... and with it "prompt() returns TurnOutcome::Aborted", says the       *)
(* module; but nothing looks at the token after the last response.         *)
AbortedOutcome ==
  [][phase = "followUp" /\ aborted /\ phase' = "end" => outcome' = "Aborted"]_loopVars
=============================================================================
