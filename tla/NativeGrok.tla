----------------------------- MODULE NativeGrok -----------------------------
(***************************************************************************)
(* The native Grok child of a lane, as wrappers/grok uses it: one process, *)
(* one session, one stream of ACP frames in each direction.  External: its *)
(* code is not in the repository; it is modelled from the frames the       *)
(* wrapper reads and writes and from the native boundary the repository's  *)
(* design documents record.                                                *)
(*                                                                         *)
(* A prompt or a message stands for its own text, and a native prompt has  *)
(* the identity of what it runs: prompt r is the session/prompt of Run r,  *)
(* prompt m is the fallback prompt Grok starts by itself for message m.    *)
(***************************************************************************)
EXTENDS Integers, Sequences, FiniteSets

CONSTANTS NRuns,      \* Runs the worker executes, one after the other
          Messages,   \* peer messages delivered to the lane
          None,       \* no run, no prompt, no delivery
          Faults      \* what the surroundings of the wrapper may do

AllFaults == {"refuse", "crash", "overflow", "disorder", "missedDrain",
              "interrupt", "cancelRun", "cancelCaller", "close"}

Runs == 1..NRuns
Requests == Runs \cup Messages

ASSUME NativeAssumption ==
  /\ NRuns \in Nat \ {0}
  /\ Messages \cap Runs = {}
  /\ None \notin Requests
  /\ Faults \subseteq AllFaults

VARIABLES toNative,     \* frames the wrapper has written and Grok has not read
          fromNative,   \* frames Grok has written and the reader has not read
          native,       \* the child: "alive" or "exited"
          running,      \* the native prompt running now, or None
          queued,       \* native prompts waiting to run
          buffered,     \* interjections enqueued into the running prompt
          enqueued,     \* messages the native actor has ever taken
          owed          \* interjections whose RPC reply is still to come

nativeVars == <<toNative, fromNative, native, running, queued, buffered,
                enqueued, owed>>

CallFrame == [type : {"prompt", "cancel"}, id : Runs]
             \cup [type : {"interject"}, id : Messages]
NativeFrame == [type : {"running", "chunk"}, id : Requests, status : {"ok"}]
               \cup [type : {"ack"}, id : Messages, status : {"ok"}]
               \cup [type : {"completed"}, id : Requests,
                     status : {"end_turn", "cancelled"}]
               \cup [type : {"reply"}, id : Requests, status : {"ok", "refused"}]

Call(type, id) == [type |-> type, id |-> id]
Frame(type, id, status) == [type |-> type, id |-> id, status |-> status]

NativeTypeOK ==
  /\ toNative \in Seq(CallFrame)
  /\ fromNative \in Seq(NativeFrame)
  /\ native \in {"alive", "exited"}
  /\ running \in Requests \cup {None}
  /\ queued \subseteq Requests
  /\ buffered \subseteq Messages
  /\ enqueued \subseteq Messages
  /\ owed \subseteq Messages

NativeInit ==
  /\ toNative = <<>> /\ fromNative = <<>>
  /\ native = "alive" /\ running = None
  /\ queued = {} /\ buffered = {} /\ enqueued = {} /\ owed = {}

Emit(frames) == fromNative' = fromNative \o frames

NextCall(type) == toNative # <<>> /\ Head(toNative).type = type

\* A session/prompt waits for its turn, whatever runs now.
TakePrompt ==
  /\ NextCall("prompt")
  /\ queued' = queued \cup {Head(toNative).id}
  /\ toNative' = Tail(toNative)
  /\ UNCHANGED <<fromNative, native, running, buffered, enqueued, owed>>

\* Any request may be answered with a JSON-RPC error: a definite refusal.
RefuseCall ==
  /\ "refuse" \in Faults
  /\ NextCall("prompt") \/ NextCall("interject")
  /\ Emit(<<Frame("reply", Head(toNative).id, "refused")>>)
  /\ toNative' = Tail(toNative)
  /\ UNCHANGED <<native, running, queued, buffered, enqueued, owed>>

\* The actor acknowledges an interjection when it enqueues it: into the running
\* prompt, or, with none, as a fallback prompt of its own.  The RPC reply comes
\* before the acknowledgement or at any time after it.
TakeInterject ==
  /\ NextCall("interject")
  /\ LET m == Head(toNative).id IN
     /\ enqueued' = enqueued \cup {m}
     /\ IF running = None
        THEN queued' = queued \cup {m} /\ UNCHANGED buffered
        ELSE buffered' = buffered \cup {m} /\ UNCHANGED queued
     /\ \/ Emit(<<Frame("reply", m, "ok"), Frame("ack", m, "ok")>>) /\ UNCHANGED owed
        \/ Emit(<<Frame("ack", m, "ok")>>) /\ owed' = owed \cup {m}
  /\ toNative' = Tail(toNative)
  /\ UNCHANGED <<native, running>>

ReplyLate(m) ==
  /\ m \in owed
  /\ Emit(<<Frame("reply", m, "ok")>>)
  /\ owed' = owed \ {m}
  /\ UNCHANGED <<toNative, native, running, queued, buffered, enqueued>>

\* queue/changed announces the prompt that starts to run.  A disordered child
\* may leave the announcement of a submitted prompt out.
StartRunning(i) ==
  /\ running = None /\ i \in queued
  /\ running' = i
  /\ queued' = queued \ {i}
  /\ \/ Emit(<<Frame("running", i, "ok")>>)
     \/ "disorder" \in Faults /\ i \in Runs /\ UNCHANGED fromNative
  /\ UNCHANGED <<toNative, native, buffered, enqueued, owed>>

Drain ==
  /\ buffered # {}
  /\ buffered' = {}
  /\ UNCHANGED <<toNative, fromNative, native, running, queued, enqueued, owed>>

\* The end of a prompt: its turn_completed, then the reply to its
\* session/prompt if it has one (a disordered child swaps the two).
EndFrames(i, why) ==
  LET completed == Frame("completed", i, why)
      answer == Frame("reply", i, "ok")
  IN IF i \notin Runs THEN {<<completed>>}
     ELSE {<<completed, answer>>}
          \cup (IF "disorder" \in Faults THEN {<<answer, completed>>} ELSE {})

\* Interjections the safe-point drain did not reach become fallback prompts if
\* the final drain can be missed; otherwise a prompt ends with none left.
EndRunning ==
  /\ running # None
  /\ buffered # {} => "missedDrain" \in Faults
  /\ \E frames \in EndFrames(running, "end_turn") : Emit(frames)
  /\ running' = None
  /\ queued' = queued \cup buffered
  /\ buffered' = {}
  /\ UNCHANGED <<toNative, native, enqueued, owed>>

\* session/cancel ends the running prompt and drops what it had buffered; with
\* nothing running it does nothing.
TakeCancel ==
  /\ NextCall("cancel")
  /\ toNative' = Tail(toNative)
  /\ IF running = None
     THEN UNCHANGED <<fromNative, running, buffered>>
     ELSE /\ \E frames \in EndFrames(running, "cancelled") : Emit(frames)
          /\ running' = None
          /\ buffered' = {}
  /\ UNCHANGED <<native, queued, enqueued, owed>>

\* An output chunk that passes the wrapper's retention limit (one unread at a
\* time, a bound of the model).
Overflow ==
  /\ "overflow" \in Faults
  /\ running # None
  /\ \A k \in DOMAIN fromNative : fromNative[k].type # "chunk"
  /\ Emit(<<Frame("chunk", running, "ok")>>)
  /\ UNCHANGED <<toNative, native, running, queued, buffered, enqueued, owed>>

Exit ==
  /\ native' = "exited"
  /\ UNCHANGED <<toNative, fromNative, running, queued, buffered, enqueued, owed>>

NativeWork ==
  \/ TakePrompt \/ TakeInterject \/ TakeCancel \/ Drain \/ EndRunning
  \/ \E m \in Messages : ReplyLate(m)
  \/ \E i \in Requests : StartRunning(i)
=============================================================================
