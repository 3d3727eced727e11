--------------------------- MODULE IngestPipeline ---------------------------
(***************************************************************************)
(* PebbleStore.IngestSortedExternal: a caller sends quads into a channel,  *)
(* a forwarding goroutine copies them to a second channel                  *)
(* (pebble_store.go), and the call itself reads that one, sorts chunks     *)
(* into runs, and ingests the merged runs when the channel is closed       *)
(* (internal/pebbleq/ingest_sorted_external.go).  The caller may cancel    *)
(* the context at any time.                                                *)
(*                                                                         *)
(* The merge of the runs is one step here; MergeRuns has its details.      *)
(***************************************************************************)
EXTENDS Integers, Sequences, FiniteSets

CONSTANTS
  Stmt,            \* complete statements
  EmptyStmt,       \* a statement with an empty field
  GoodLabel,       \* labels validateLabel accepts (besides the empty one)
  BadLabel,        \* labels it refuses
  NoLabel,         \* the empty label
  InputChoice,     \* what callers send: sequences of quads
  DefaultChoice,   \* the default labels they pass
  ChunkSize,       \* quads per run
  CapChoice,       \* cap(in), which is also the capacity of the second channel
  ForwardedChoice, \* FALSE: pebbleq's own method, which reads `in' directly
  Cancellable      \* TRUE: the caller may cancel the context

AnyLabel   == GoodLabel \cup BadLabel \cup {NoLabel}
ValidLabel == GoodLabel \cup {NoLabel}
Quad       == [stmt : Stmt \cup {EmptyStmt}, label : AnyLabel]

ASSUME PipelineAssumption ==
  /\ InputChoice \subseteq Seq(Quad)
  /\ DefaultChoice \subseteq AnyLabel
  /\ ChunkSize \in Nat \ {0}
  /\ CapChoice \subseteq Nat
  /\ ForwardedChoice \subseteq BOOLEAN
  /\ Cancellable \in BOOLEAN

VARIABLES
  input,      \* what this caller sends, and its default label
  default,
  cap,        \* the capacity of the channels
  forwarded,  \* whether there is a second one
  sent,       \* how many quads of it are in, or through, the channel
  silent,     \* the caller stopped sending, without closing, after cancelling
  chan,       \* the two channels: [buf, closed]
  fwd,        \* where the forwarding goroutine stands
  held,       \* the quad it holds
  cancelled,  \* the context is done
  call,       \* where the call stands
  chunk,      \* quads read and not yet in a run
  runs,       \* the chunks written to disk as runs
  deltas,     \* quads in the runs, per label
  stored,     \* the quads ingested into the store
  counted,    \* quads added to each label counter
  result      \* what the call returned; the statistics of a failed call are left out

vars == <<input, default, cap, forwarded, sent, silent, chan, fwd, held, cancelled, call, chunk, runs, deltas,
          stored, counted, result>>

request    == <<input, default, cap, forwarded>>
callerVars == <<request, sent, silent>>
fwdVars    == <<fwd, held>>
callVars   == <<call, chunk, runs, deltas, stored, counted, result>>

Effective(q) == IF q.label = NoLabel THEN [q EXCEPT !.label = default] ELSE q

EffectiveSet(qs) == {Effective(qs[i]) : i \in DOMAIN qs}

Zero       == [l \in AnyLabel |-> 0]
Plus(f, g) == [l \in AnyLabel |-> f[l] + g[l]]

LabelTally(qs) ==
  [l \in AnyLabel |-> Cardinality({i \in DOMAIN qs : Effective(qs[i]).label = l})]

\* The channel the call reads from.
Tap == IF forwarded THEN "inner" ELSE "in"

\* Mutated Room: the channels never fill up.
AlwaysRoom(c, receiverWaits) == TRUE

\* A send succeeds while the buffer has room; on an unbuffered channel, when
\* the receiver is waiting.
Room(c, receiverWaits) ==
  \/ Len(chan[c].buf) < cap
  \/ cap = 0 /\ chan[c].buf = <<>> /\ receiverWaits

Send(c, q)  == chan' = [chan EXCEPT ![c].buf = Append(@, q)]
Receive(c)  == chan' = [chan EXCEPT ![c].buf = Tail(@)]
Close(c)    == chan' = [chan EXCEPT ![c].closed = TRUE]

Pending(c) == chan[c].buf # <<>>
Drained(c) == chan[c].buf = <<>> /\ chan[c].closed

NoResult == [status |-> "none", ingested |-> 0, skipped |-> 0]

Init ==
  /\ input \in InputChoice
  /\ default \in DefaultChoice
  /\ cap \in CapChoice
  /\ forwarded \in ForwardedChoice
  /\ sent = 0
  /\ silent = FALSE
  /\ chan = [c \in {"in", "inner"} |-> [buf |-> <<>>, closed |-> FALSE]]
  /\ fwd = IF forwarded THEN "receive" ELSE "done"
  /\ held = <<>>
  /\ cancelled = FALSE
  /\ call = "start"
  /\ chunk = <<>>
  /\ runs = <<>>
  /\ deltas = Zero
  /\ stored = {}
  /\ counted = Zero
  /\ result = NoResult

(* The caller *)

InReceiverWaits == IF forwarded THEN fwd = "receive" ELSE call = "reading"

CallerSends ==
  /\ ~silent
  /\ sent < Len(input)
  /\ Room("in", InReceiverWaits)
  /\ Send("in", input[sent + 1])
  /\ sent' = sent + 1
  /\ UNCHANGED <<request, silent, cancelled, fwdVars, callVars>>

CallerCloses ==
  /\ ~silent
  /\ sent = Len(input)
  /\ ~chan["in"].closed
  /\ Close("in")
  /\ UNCHANGED <<request, sent, silent, cancelled, fwdVars, callVars>>

CallerCancels ==
  /\ Cancellable
  /\ ~cancelled
  /\ cancelled' = TRUE
  /\ silent' \in BOOLEAN
  /\ UNCHANGED <<request, sent, chan, fwdVars, callVars>>

(* The forwarding goroutine *)

ForwarderReceives ==
  /\ fwd = "receive"
  /\ Pending("in")
  /\ held' = <<Head(chan["in"].buf)>>
  /\ Receive("in")
  /\ fwd' = "send"
  /\ UNCHANGED <<callerVars, cancelled, callVars>>

ForwarderSends ==
  /\ fwd = "send"
  /\ Room("inner", call = "reading")
  /\ Send("inner", held[1])
  /\ held' = <<>>
  /\ fwd' = "receive"
  /\ UNCHANGED <<callerVars, cancelled, callVars>>

\* Mutated ForwarderEnds: the send does not watch the context.
ForwarderIgnoresCancel ==
  /\ fwd = "receive" /\ Drained("in")
  /\ fwd' = "done"
  /\ held' = <<>>
  /\ Close("inner")
  /\ UNCHANGED <<callerVars, cancelled, callVars>>

\* defer close(innerCh): at the end of the input, and on cancellation too.
ForwarderEnds ==
  /\ \/ fwd = "receive" /\ Drained("in")
     \/ fwd = "send" /\ cancelled
  /\ fwd' = "done"
  /\ held' = <<>>
  /\ Close("inner")
  /\ UNCHANGED <<callerVars, cancelled, callVars>>

(* The call *)

\* The working directory, with the runs in it, goes when the call returns.
Return(res) ==
  /\ call' = "done"
  /\ result' = res
  /\ chunk' = <<>>
  /\ runs' = <<>>
  /\ deltas' = Zero

Fail(status) == Return([NoResult EXCEPT !.status = status])

\* The checks before the first read; the working directory may not be made.
Begin ==
  /\ call = "start"
  /\ \/ /\ default \in ValidLabel
        /\ call' = "reading"
        /\ UNCHANGED <<chunk, runs, deltas, result>>
     \/ default \notin ValidLabel /\ Fail("invalid")
     \/ default \in ValidLabel /\ Fail("io")
  /\ UNCHANGED <<callerVars, chan, fwdVars, cancelled, stored, counted>>

LabelsValid(qs) == \A i \in DOMAIN qs : Effective(qs[i]).label \in ValidLabel

\* flushChunk: a chunk becomes a run, unless one of its labels is invalid or
\* the files cannot be written.
FlushChunk(qs, next) ==
  \/ /\ LabelsValid(qs)
     /\ runs' = IF qs = <<>> THEN runs ELSE Append(runs, qs)
     /\ deltas' = Plus(deltas, LabelTally(qs))
     /\ chunk' = <<>>
     /\ call' = next
     /\ UNCHANGED result
  \/ ~LabelsValid(qs) /\ Fail("invalid")
  \/ LabelsValid(qs) /\ qs # <<>> /\ Fail("io")

ReadQuad ==
  /\ call = "reading"
  /\ Pending(Tap)
  /\ LET q  == Head(chan[Tap].buf)
         qs == Append(chunk, q)
     IN \/ q.stmt = EmptyStmt /\ Fail("invalid")
        \/ /\ q.stmt # EmptyStmt
           /\ Len(qs) < ChunkSize
           /\ chunk' = qs
           /\ UNCHANGED <<call, runs, deltas, result>>
        \/ /\ q.stmt # EmptyStmt
           /\ Len(qs) >= ChunkSize
           /\ FlushChunk(qs, "reading")
  /\ Receive(Tap)
  /\ UNCHANGED <<callerVars, fwdVars, cancelled, stored, counted>>

\* Mutated ReadEnd: the last, partial chunk is forgotten.
ReadEndDropsChunk ==
  /\ call = "reading"
  /\ Drained(Tap)
  /\ FlushChunk(<<>>, "ingest")
  /\ UNCHANGED <<callerVars, chan, fwdVars, cancelled, stored, counted>>

\* The channel is closed and empty: the last chunk, then the merge.
ReadEnd ==
  /\ call = "reading"
  /\ Drained(Tap)
  /\ FlushChunk(chunk, "ingest")
  /\ UNCHANGED <<callerVars, chan, fwdVars, cancelled, stored, counted>>

\* Mutated ReadCancelled: the select has no ctx.Done case.
NeverReadCancelled == FALSE /\ UNCHANGED vars

\* ctx.Done: select takes it or the channel when both are ready.
ReadCancelled ==
  /\ call = "reading"
  /\ cancelled
  /\ Fail("cancelled")
  /\ UNCHANGED <<callerVars, chan, fwdVars, cancelled, stored, counted>>

\* The runs merged into four tables, ingested at once; or none of them.
IngestRuns ==
  /\ call = "ingest"
  /\ \/ /\ stored' = UNION {EffectiveSet(runs[i]) : i \in DOMAIN runs}
        /\ call' = "count"
        /\ UNCHANGED <<chunk, runs, deltas, result>>
     \/ Fail("io") /\ UNCHANGED stored
  /\ UNCHANGED <<callerVars, chan, fwdVars, cancelled, counted>>

Positions == {x \in (DOMAIN runs) \X (1..ChunkSize) : x[2] \in DOMAIN runs[x[1]]}

\* The counters get every quad that was read, duplicates included.
CountRuns ==
  /\ call = "count"
  /\ counted' = Plus(counted, deltas)
  /\ Return([status |-> "ok", ingested |-> Cardinality(stored),
             skipped |-> Cardinality(Positions) - Cardinality(stored)])
  /\ UNCHANGED <<callerVars, chan, fwdVars, cancelled, stored>>

Caller    == CallerSends \/ CallerCloses
Forwarder == ForwarderReceives \/ ForwarderSends \/ ForwarderEnds
Call      == Begin \/ ReadQuad \/ ReadEnd \/ ReadCancelled \/ IngestRuns \/ CountRuns

Next == Caller \/ CallerCancels \/ Forwarder \/ Call

\* The scheduler runs every goroutine that can run; nobody has to cancel.
Spec ==
  /\ Init /\ [][Next]_vars
  /\ WF_vars(Caller) /\ WF_vars(Forwarder) /\ WF_vars(Call)

----------------------------------------------------------------------------
(* Properties *)

Ok == result.status = "ok"

\* The call stored and counted exactly these quads, and its statistics add up.
Imported(qs) ==
  /\ stored = EffectiveSet(qs)
  /\ counted = LabelTally(qs)
  /\ result.ingested = Cardinality(EffectiveSet(qs))
  /\ result.ingested + result.skipped = Len(qs)

\* All or nothing, but for a cancellation.  A call that returns nil and was not
\* cancelled has ingested everything the caller sent: no chunk, no quad in a
\* channel or in the forwarding goroutine's hands is lost (without that
\* goroutine a late cancellation does not matter); a cancelled one at most
\* stops early, with nothing left out in between, and counts what it stored.
\* A call that fails stores nothing, and no call stores a quad with an empty
\* field or an invalid label, however many runs were written before.
WholeOrNothing ==
  /\ Ok => \E n \in 0..Len(input) : Imported(SubSeq(input, 1, n))
  /\ Ok /\ (forwarded => ~cancelled) => Imported(input)
  /\ call = "done" /\ ~Ok => stored = {} /\ counted = Zero
  /\ \A q \in stored : q.stmt # EmptyStmt /\ q.label \in ValidLabel

\* Back-pressure: while the call reads, what has been sent and is not on disk
\* fits one chunk, the two channels and the forwarding goroutine.
BoundedMemory == call = "reading" => sent - Cardinality(Positions) <= ChunkSize + 2 * cap + 1

\* The call returns, whether the input ends, is invalid or is cancelled.
CallReturns == <>(call = "done")

\* Cancelling ends the forwarding goroutine, unless the caller leaves it
\* waiting for a quad that never comes.
CancelFreesForwarder == cancelled ~> (fwd = "done" \/ silent)

(* Claims of the documentation that the code does not keep. *)

\* ingest_sorted_external.go:77: quads are read until the channel is closed,
\* then ingested; ctx.Err() is returned when the caller cancels mid-stream.
ReadsUntilClosed == Ok => Imported(input)

=============================================================================
