------------------------------ MODULE QuadGraph ------------------------------
(***************************************************************************)
(* What a quadstore promises its callers, whatever the backend: a set of   *)
(* quads that changes by one whole request at a time, and a set of graphs  *)
(* the store may come back with after the process dies.                    *)
(*                                                                         *)
(* The writers of both backends acknowledge a commit before it is fsynced  *)
(* (pebble.NoSync, SQLite synchronous=NORMAL), so the durable state is not *)
(* one graph but a set of candidates: every unsynced commit adds one.      *)
(***************************************************************************)

CONSTANTS
  Caller,    \* the goroutines that use the store
  Loads,     \* the sets of quads loaders and ingests may add
  Change     \* the commits callers ask for: [adds, removes], sets of quads

VARIABLES graph,    \* the quads a reader sees now
          worlds,   \* the graphs a crash may leave behind
          asked,    \* asked[p]: the commit p waits for, as a set of at most one
          failed    \* the callers whose last commit was answered with an error

vars == <<graph, worlds, asked, failed>>

NothingAsked == [p \in Caller |-> {}]

Init == graph = {} /\ worlds = {{}} /\ asked = NothingAsked /\ failed = {}

\* A caller hands over a batch the store accepts.
Ask(p, c) ==
  /\ asked[p] = {}
  /\ asked' = [asked EXCEPT ![p] = {c}]
  /\ UNCHANGED <<graph, worlds, failed>>

\* The batch is applied once and as a whole, adds before removes: a quad in
\* both is absent afterwards.  It may or may not survive a crash.
Commit(p, c) ==
  /\ asked[p] = {c}
  /\ asked' = [asked EXCEPT ![p] = {}]
  /\ failed' = failed \ {p}
  /\ graph' = (graph \cup c.adds) \ c.removes
  /\ worlds' = worlds \cup {graph'}

\* The batch is not applied, and the caller is told.
Refuse(p) ==
  /\ asked[p] # {}
  /\ asked' = [asked EXCEPT ![p] = {}]
  /\ failed' = failed \cup {p}
  /\ UNCHANGED <<graph, worlds>>

\* A bulk loader writes the quads it holds.
Load(adds) ==
  /\ graph' = graph \cup adds
  /\ worlds' = worlds \cup {graph'}
  /\ UNCHANGED <<asked, failed>>

\* Files are linked in and are durable at once; earlier commits may be made
\* durable with them or stay in doubt.
Ingest(adds) ==
  /\ graph' = graph \cup adds
  /\ \E kept \in {worlds, {graph}} : worlds' = {w \cup adds : w \in kept}
  /\ UNCHANGED <<asked, failed>>

\* Everything acknowledged so far reaches the disk.
Harden == worlds' = {graph} /\ UNCHANGED <<graph, asked, failed>>

\* The process dies, with every call in it, and the store is opened again.
Recover ==
  /\ \E w \in worlds : graph' = w /\ worlds' = {w}
  /\ asked' = NothingAsked
  /\ failed' = {}

Next ==
  \/ \E p \in Caller, c \in Change : Ask(p, c) \/ Commit(p, c)
  \/ \E p \in Caller : Refuse(p)
  \/ \E adds \in Loads : Load(adds) \/ Ingest(adds)
  \/ Harden
  \/ Recover

Spec == Init /\ [][Next]_vars

=============================================================================
