------------------------------- MODULE SseHub -------------------------------
(***************************************************************************)
(* The SSE hub (internal/sse/hub.go): broadcasts and the serve loops of    *)
(* its clients share the set of clients under h.mu; each client has a      *)
(* bounded channel, and one that cannot keep up is evicted by closing it.  *)
(* In Go a send on a closed channel and a second close both panic.         *)
(***************************************************************************)
EXTENDS Integers, Sequences

CONSTANTS Client,    \* connections; each is served once
          BufSize,   \* capacity of a client's channel
          MaxFrames  \* bound: frames broadcast

ASSUME BufferAssumption == BufSize \in Nat \ {0}

VARIABLES clients,  \* Hub.clients
          ch,       \* frames waiting in a client's channel, by number
          closes,   \* how often a client's channel has been closed
          pc,       \* where a client's ServeHTTP is
          taken,    \* the last frame a serve loop took from its channel
          left,     \* requests whose context is done
          sent      \* frames broadcast so far

hvars == <<clients, ch, closes, pc, taken, left, sent>>

TypeOK ==
    /\ clients \subseteq Client
    /\ \A c \in Client : Len(ch[c]) <= BufSize /\ ch[c] \in Seq(1..MaxFrames)
    /\ closes \in [Client -> Nat]
    /\ pc \in [Client -> {"new", "select", "write", "cleanup", "gone"}]
    /\ taken \in [Client -> 0..MaxFrames]
    /\ left \subseteq Client
    /\ sent \in 0..MaxFrames

Init ==
    /\ clients = {} /\ left = {} /\ sent = 0
    /\ ch = [c \in Client |-> <<>>]
    /\ closes = [c \in Client |-> 0]
    /\ pc = [c \in Client |-> "new"]
    /\ taken = [c \in Client |-> 0]

Goto(c, l) == pc' = [pc EXCEPT ![c] = l]

-----------------------------------------------------------------------------
Full == {c \in clients : Len(ch[c]) = BufSize}

\* Mutated form: a full client misses the frame and stays.
BroadcastSkipsFull ==
    /\ sent < MaxFrames
    /\ sent' = sent + 1
    /\ ch' = [c \in Client |-> IF c \in clients \ Full THEN Append(ch[c], sent + 1) ELSE ch[c]]
    /\ UNCHANGED <<clients, closes, pc, taken, left>>

\* Mutated form: an evicted client's channel is left open.
BroadcastLeavesOpen ==
    /\ sent < MaxFrames
    /\ sent' = sent + 1
    /\ ch' = [c \in Client |-> IF c \in clients \ Full THEN Append(ch[c], sent + 1) ELSE ch[c]]
    /\ clients' = clients \ Full
    /\ UNCHANGED <<closes, pc, taken, left>>

\* Broadcast queues the frame for every client and evicts the full ones.
Broadcast ==
    /\ sent < MaxFrames
    /\ sent' = sent + 1
    /\ ch' = [c \in Client |-> IF c \in clients \ Full THEN Append(ch[c], sent + 1) ELSE ch[c]]
    /\ clients' = clients \ Full
    /\ closes' = [c \in Client |-> IF c \in Full THEN closes[c] + 1 ELSE closes[c]]
    /\ UNCHANGED <<pc, taken, left>>

-----------------------------------------------------------------------------
(* ServeHTTP. *)

\* The stream a client is owed starts with the next broadcast.
Register(c) ==
    /\ pc[c] = "new"
    /\ clients' = clients \union {c}
    /\ taken' = [taken EXCEPT ![c] = sent]
    /\ Goto(c, "select")
    /\ UNCHANGED <<ch, closes, left, sent>>

\* A closed channel still hands out the frames it holds.
TakeFrame(c) ==
    /\ pc[c] = "select" /\ ch[c] # <<>>
    /\ taken' = [taken EXCEPT ![c] = Head(ch[c])]
    /\ ch' = [ch EXCEPT ![c] = Tail(@)]
    /\ Goto(c, "write")
    /\ UNCHANGED <<clients, closes, left, sent>>

SeeClosed(c) ==
    /\ pc[c] = "select" /\ ch[c] = <<>> /\ closes[c] > 0
    /\ Goto(c, "cleanup")
    /\ UNCHANGED <<clients, ch, closes, taken, left, sent>>

SeeDone(c) ==
    /\ pc[c] = "select" /\ c \in left
    /\ Goto(c, "cleanup")
    /\ UNCHANGED <<clients, ch, closes, taken, left, sent>>

\* The write returns: the loop goes on, or the connection is broken.
WriteReturns(c) ==
    /\ pc[c] = "write"
    /\ Goto(c, "select") \/ (c \in left /\ Goto(c, "cleanup"))
    /\ UNCHANGED <<clients, ch, closes, taken, left, sent>>

\* Mutated form: the deferred function closes without looking the client up.
CleanupAlways(c) ==
    /\ pc[c] = "cleanup"
    /\ clients' = clients \ {c}
    /\ closes' = [closes EXCEPT ![c] = @ + 1]
    /\ Goto(c, "gone")
    /\ UNCHANGED <<ch, taken, left, sent>>

\* The deferred function: a client still registered is removed and closed.
Cleanup(c) ==
    /\ pc[c] = "cleanup"
    /\ clients' = clients \ {c}
    /\ closes' = IF c \in clients THEN [closes EXCEPT ![c] = @ + 1] ELSE closes
    /\ Goto(c, "gone")
    /\ UNCHANGED <<ch, taken, left, sent>>

Serve(c) == TakeFrame(c) \/ SeeClosed(c) \/ SeeDone(c) \/ WriteReturns(c) \/ Cleanup(c)

\* The client closes its connection.
Leave(c) ==
    /\ pc[c] # "gone" /\ c \notin left
    /\ left' = left \union {c}
    /\ UNCHANGED <<clients, ch, closes, pc, taken, sent>>

Next == Broadcast \/ \E c \in Client : Register(c) \/ Serve(c) \/ Leave(c)

\* A serve loop is never starved, its select does not avoid a ready case for
\* ever, and a write returns: the kernel gives up on a dead connection.
Fairness == \A c \in Client : WF_hvars(Serve(c)) /\ SF_hvars(SeeDone(c))

Spec == Init /\ [][Next]_hvars /\ Fairness

-----------------------------------------------------------------------------
(***************************************************************************)
(* Properties.                                                             *)
(***************************************************************************)

\* No send on a closed channel and no second close: a registered client's
\* channel is open, and eviction and cleanup never both close it.
NoPanic ==
    \A c \in Client : closes[c] <= 1 /\ (c \in clients => closes[c] = 0)

\* A client sees every frame from its registration on, in order, until it is
\* evicted: a slow client loses its connection, never a frame in the middle.
NoGap ==
    \A c \in Client : pc[c] # "new" =>
        /\ \A i \in DOMAIN ch[c] : ch[c][i] = taken[c] + i
        /\ c \in clients => taken[c] + Len(ch[c]) = sent

\* A serve loop whose client is evicted or gone ends, and takes its entry in
\* the set with it: connections do not pile up.
ServeEnds ==
    \A c \in Client :
        (pc[c] # "new" /\ (c \notin clients \/ c \in left)) ~> (pc[c] = "gone" /\ c \notin clients)
=============================================================================
