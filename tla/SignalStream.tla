---------------------------- MODULE SignalStream ----------------------------
(***************************************************************************)
(* adapters/signal.ts: the event stream of the signal-cli daemon, its      *)
(* reconnect, and what becomes of an envelope.  A loop of startEventStream *)
(* looks at this.abortController, which is null after disconnect() and a   *)
(* new one after the next connect().                                       *)
(***************************************************************************)
EXTENDS Integers, Sequences, FiniteSets

CONSTANTS
  Streams,            \* calls of startEventStream
  Envelopes,          \* sequence: what the daemon sends, [kind, parts]
  MaxSignalConnects,  \* bounds the calls of connect
  MaxBreaks           \* bounds what fails

ASSUME SignalAssumption ==
  /\ IsFiniteSet(Streams)
  /\ Envelopes \in Seq([kind : STRING, parts : Nat])

VARIABLES
  abortController,    \* 0: null, else the number of the connect that made it
  connecting,         \* connect() awaits healthCheck
  signalConnects, breaks,
  stream,             \* [Streams -> [pc, signal]]
  sync,               \* syncContacts and syncGroups have entries to emit
  sent,               \* envelopes the daemon has sent
  task,               \* {[stream, envelope, left]}: calls of handleSseEvent
  emitted,            \* history: [envelopes -> calls of the handler]
  rejoined            \* history: a connect found a loop that had not ended

signalVars == <<abortController, connecting, signalConnects, breaks, stream, sync,
                sent, task, emitted, rejoined>>
signalData == <<sync, sent, task, emitted>>

NoStream == [pc |-> "idle", signal |-> 0]
Looping == {s \in Streams : stream[s].pc # "idle"}
Reading == {s \in Streams : stream[s].pc = "reading"}
Fails == breaks < MaxBreaks /\ breaks' = breaks + 1

SignalInit ==
  /\ abortController = 0 /\ connecting = FALSE
  /\ signalConnects = 0 /\ breaks = 0
  /\ stream = [s \in Streams |-> NoStream]
  /\ sync = FALSE
  /\ sent = 0 /\ task = {} /\ emitted = [e \in DOMAIN Envelopes |-> 0]
  /\ rejoined = FALSE

-----------------------------------------------------------------------------
ConnectSignal ==
  /\ abortController = 0 /\ ~connecting /\ signalConnects < MaxSignalConnects
  /\ connecting' = TRUE /\ signalConnects' = signalConnects + 1
  /\ UNCHANGED <<abortController, breaks, stream, signalData, rejoined>>

\* The check passed: a loop and two imports start, beside loops not yet ended.
ConnectedSignal(s) ==
  /\ connecting /\ stream[s].pc = "idle"
  /\ connecting' = FALSE
  /\ abortController' = signalConnects
  /\ stream' = [stream EXCEPT ![s] = [pc |-> "top", signal |-> 0]]
  /\ sync' = TRUE
  /\ rejoined' = (rejoined \/ Looping # {})
  /\ UNCHANGED <<signalConnects, breaks, sent, task, emitted>>

ConnectSignalFails ==
  /\ connecting /\ Fails
  /\ connecting' = FALSE
  /\ UNCHANGED <<abortController, signalConnects, stream, signalData, rejoined>>

\* abort() and null in one step: no loop ever sees an aborted controller.
DisconnectSignal ==
  /\ abortController # 0
  /\ abortController' = 0
  /\ UNCHANGED <<connecting, signalConnects, breaks, stream, signalData, rejoined>>

-----------------------------------------------------------------------------
Kept == <<abortController, connecting, signalConnects, rejoined>>
Turn(s, pc) == stream' = [stream EXCEPT ![s].pc = pc]

\* while (abortController && !aborted) fetch(..., its signal)
Fetch(s) ==
  /\ stream[s].pc = "top"
  /\ stream' = [stream EXCEPT ![s] =
                  IF abortController = 0 THEN NoStream
                  ELSE [pc |-> "fetching", signal |-> abortController]]
  /\ UNCHANGED <<Kept, breaks, signalData>>

FetchAnswers(s) ==
  /\ stream[s].pc = "fetching" /\ stream[s].signal = abortController
  /\ Turn(s, "reading")
  /\ UNCHANGED <<Kept, breaks, signalData>>

\* Faulty: the stream that ended starts another loop, and goes on itself.
EventStreamRestarts(s) ==
  /\ stream[s].pc = "reading" /\ Fails
  /\ \E r \in Streams : stream[r].pc = "idle" /\
       stream' = [stream EXCEPT ![s].pc = "top", ![r] = [pc |-> "top", signal |-> 0]]
  /\ UNCHANGED <<Kept, signalData>>

\* reader.read() is done: the loop turns without a delay.
EventStreamEnds(s) ==
  /\ stream[s].pc = "reading" /\ Fails
  /\ Turn(s, "top")
  /\ UNCHANGED <<Kept, signalData>>

\* Faulty: the loop returns on every error.
StreamFailsReturns(s) ==
  /\ stream[s].pc \in {"fetching", "reading"}
  /\ \/ stream[s].signal # abortController /\ UNCHANGED breaks
     \/ Fails
  /\ stream' = [stream EXCEPT ![s] = NoStream]
  /\ UNCHANGED <<Kept, signalData>>

\* A refused or broken request, or one whose own controller was aborted: the
\* catch looks at the controller of now, finds none aborted, and sleeps 5 s.
StreamFails(s) ==
  /\ stream[s].pc \in {"fetching", "reading"}
  /\ \/ stream[s].signal # abortController /\ UNCHANGED breaks
     \/ Fails
  /\ Turn(s, "sleeping")
  /\ UNCHANGED <<Kept, signalData>>

StreamAwakes(s) ==
  /\ stream[s].pc = "sleeping"
  /\ Turn(s, "top")
  /\ UNCHANGED <<Kept, breaks, signalData>>

StreamStep(s) == Fetch(s) \/ FetchAnswers(s) \/ EventStreamEnds(s) \/ StreamFails(s) \/ StreamAwakes(s)

-----------------------------------------------------------------------------
(* Envelopes.                                                              *)

\* Messages an envelope becomes: a reaction, an edit and a text are one, a
\* receipt is one for each of its timestamps, anything else is none.
messages(e) ==
  CASE Envelopes[e].kind \in {"reaction", "edit", "text"} -> 1
    [] Envelopes[e].kind = "receipt" -> Envelopes[e].parts
    [] OTHER -> 0

\* The daemon writes an envelope to every stream that is open.  Each starts a
\* handleSseEvent nobody awaits, which calls the handler before it returns.
EnvelopeRead ==
  LET e == sent + 1
  IN /\ e \in DOMAIN Envelopes
     /\ sent' = e
     /\ IF messages(e) = 0 THEN UNCHANGED <<task, emitted>>
        ELSE /\ task' = task \cup [stream : Reading, envelope : {e}, left : {messages(e) - 1}]
             /\ emitted' = [emitted EXCEPT ![e] = @ + Cardinality(Reading)]
     /\ UNCHANGED <<Kept, breaks, stream, sync>>

\* emitMessage returned, whatever the handler did: the next timestamp, or the end.
EmitReturns(t) ==
  /\ IF t.left = 0 THEN task' = task \ {t} /\ UNCHANGED emitted
     ELSE /\ task' = (task \ {t}) \cup {[t EXCEPT !.left = @ - 1]}
          /\ emitted' = [emitted EXCEPT ![t.envelope] = @ + 1]
  /\ UNCHANGED <<Kept, breaks, stream, sync, sent>>

\* syncContacts and syncGroups: a message for each entry; a failure is logged.
SyncSettles ==
  /\ sync
  /\ sync' = FALSE
  /\ UNCHANGED <<Kept, breaks, stream, sent, task, emitted>>

SignalNext ==
  \/ ConnectSignal \/ ConnectSignalFails \/ DisconnectSignal \/ EnvelopeRead \/ SyncSettles
  \/ \E s \in Streams : ConnectedSignal(s) \/ StreamStep(s)
  \/ \E t \in task : EmitReturns(t)

\* Requests settle: the daemon answers them or their signal ends them.
StreamRuns(s) ==
  \/ Fetch(s) \/ FetchAnswers(s) \/ StreamAwakes(s)
  \/ stream[s].signal # abortController /\ StreamFails(s)

SignalSpec == SignalInit /\ [][SignalNext]_signalVars

SignalFairSpec ==
  /\ SignalSpec
  /\ \A s \in Streams : WF_signalVars(StreamRuns(s))

-----------------------------------------------------------------------------
(* The handler is called more often than an envelope has messages only     *)
(* after a connect() that found a loop still alive, which then goes on     *)
(* with the new controller (startEventStream, disconnect).                 *)
DoubledOnlyByReconnect ==
  \A e \in DOMAIN Envelopes : emitted[e] > messages(e) => rejoined

(* While the adapter stays connected, a stream that ended or failed is     *)
(* opened again; when it stays disconnected, every loop ends.              *)
StreamFollowsConnection ==
  /\ <>[](abortController # 0) => []<>(Reading # {})
  /\ <>[](abortController = 0 /\ ~connecting) => <>[](Looping = {})
=============================================================================
