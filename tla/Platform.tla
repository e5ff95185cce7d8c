------------------------------ MODULE Platform ------------------------------
(***************************************************************************)
(* What the requests, the webhook calls of Naryo and the billing pass      *)
(* share besides the meters of a session: which sessions the store has,    *)
(* and the activity feed (internal/pipeline/activity.go), a list of recent *)
(* entries for dashboards, behind a mutex of its own.                      *)
(***************************************************************************)
EXTENDS Integers, Sequences

CONSTANTS
    Sessions,
    NoSession,   \* the session of an entry about an agent
    MaxEntries,  \* capacity of the feed (max)
    MaxMoves     \* bound: changes of sessions, top-ups and stored events

VARIABLES
    sessions,    \* MemoryStore.sessions
    feed,        \* ActivityLog.entries, the oldest first
    moves

Kinds == {"pipeline_created", "pipeline_started", "pipeline_paused", "pipeline_resumed",
          "pipeline_stopped", "pipeline_reconfigured", "payment_stream_started",
          "payment_stream_stalled", "agent_top_up", "naryo_event"}

Entry == [kind: Kinds, on: Sessions \union {NoSession}]

PlatformTypeOK ==
    /\ sessions \subseteq Sessions
    /\ feed \in Seq(Entry)
    /\ Len(feed) <= MaxEntries
    /\ moves \in 0 .. MaxMoves

PlatformInit == sessions = {} /\ feed = <<>> /\ moves = 0

Moves == moves < MaxMoves /\ moves' = moves + 1

\* The last n elements of a list, or all of them.
Recent(list, n) == IF n >= Len(list) THEN list ELSE SubSeq(list, Len(list) - n + 1, Len(list))

\* Record: the oldest entry makes room for a new one.
Record(kind, s) == feed' = Recent(Append(feed, [kind |-> kind, on |-> s]), MaxEntries)
=============================================================================
