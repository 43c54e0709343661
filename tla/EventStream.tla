----------------------------- MODULE EventStream ------------------------------
(***************************************************************************)
(* The live event stream of one session: WebSocketEventPublisher           *)
(* (ws/publisher.py) and the WebSocket route that drains its queues        *)
(* (ws/routes.py).                                                         *)
(*                                                                         *)
(* publish runs in the threads of the handlers, the route on the event     *)
(* loop. asyncio.Queue is not meant for threads: put_nowait asks full()    *)
(* and then appends, get_nowait asks empty() and then pops, and another    *)
(* thread may run in between; a pop that finds nothing raises IndexError.  *)
(***************************************************************************)
EXTENDS Naturals, Sequences, FiniteSets, SequencesExt

CONSTANTS
    Threads,        \* handlers that may publish at the same time
    MaxNumber,      \* events built, welcomes included (bound)
    Conns,          \* WebSocket connections the run may serve (bound)
    Users,          \* members of the session
    Depth,          \* MAX_QUEUE_DEPTH
    Nobody          \* no user

ASSUME StreamAssumption ==
    /\ Depth \in Nat \ {0} /\ MaxNumber \in Nat
    /\ Nobody \notin Users /\ IsFiniteSet(Threads)

VARIABLES
    next,     \* _sequence_numbers[session]
    subs,     \* _subscribers[session], the queue named by its connection
    queue,    \* the envelopes buffered for each connection
    conn,     \* the connections and where their handlers are
    alive,    \* connections whose client is still there
    valid,    \* users whose token and membership still hold
    pub       \* the calls of publish

streamVars == <<next, subs, queue, conn, alive, valid, pub>>
server == <<queue, pub>>

Envelope == [private : BOOLEAN, audience : Users \cup {Nobody}]

NoEnvelope == [private |-> FALSE, audience |-> Nobody]

Goto(c, at) == conn' = [conn EXCEPT ![c] = [@ EXCEPT !.at = at]]
GotoAfter(c, at, pass) == conn' = [conn EXCEPT ![c] = [@ EXCEPT !.at = at, !.pass = pass]]

(* A handler that is past subscribe and before its finally.                *)
Attended(c) == conn[c].at \in {"subscribed", "verify", "draining", "popping", "waiting"}

-----------------------------------------------------------------------------
Connect(c, u) ==
    /\ conn[c].at = "none" /\ u \in valid
    /\ conn' = [conn EXCEPT ![c] = [at |-> "accepted", user |-> u, pass |-> "first"]]
    /\ alive' = alive \cup {c}
    /\ UNCHANGED <<next, subs, valid, server>>

Subscribe(c) ==
    /\ conn[c].at = "accepted"
    /\ subs' = Append(subs, c)
    /\ Goto(c, "subscribed")
    /\ UNCHANGED <<next, alive, valid, server>>

(* The welcome takes a number of the session's sequence.                   *)
Welcome(c) ==
    /\ conn[c].at = "subscribed"
    /\ c \in alive
    /\ next' = next + 1
    /\ Goto(c, "verify")
    /\ UNCHANGED <<subs, alive, valid, server>>

(* The welcome is sent outside the try whose finally unsubscribes.         *)
MissWelcome(c) ==
    /\ conn[c].at = "subscribed"
    /\ c \notin alive
    /\ next' = next + 1
    /\ Goto(c, "closed")
    /\ UNCHANGED <<subs, alive, valid, server>>

(* A queue is subscribed once.                                             *)
Unsubscribed(c) ==
    IF Contains(subs, c) THEN RemoveAt(subs, CHOOSE i \in 1..Len(subs) : subs[i] = c) ELSE subs

(* The finally of the handler: the client is gone, the token or membership *)
(* is not valid any more, or the drain failed.                             *)
Leave(c) ==
    /\ subs' = Unsubscribed(c)
    /\ Goto(c, "closed")

VerifyNever(c) == TRUE   \* slip: the token is verified on connection only

TokenHolds(c) == conn[c].user \in valid

Verify(c) ==
    /\ conn[c].at = "verify"
    /\ \/ /\ TokenHolds(c)
          /\ GotoAfter(c, "draining", "first")
          /\ UNCHANGED subs
       \/ /\ ~TokenHolds(c)
          /\ Leave(c)
    /\ UNCHANGED <<next, alive, valid, server>>

(* get_nowait: empty() first.                                              *)
DrainMore(c) ==
    /\ conn[c].at = "draining" /\ queue[c] # <<>>
    /\ Goto(c, "popping")
    /\ UNCHANGED <<next, subs, alive, valid, server>>

(* A pass that sent nothing waits for the client, the others start over.   *)
DrainDone(c) ==
    /\ conn[c].at = "draining" /\ queue[c] = <<>>
    /\ Goto(c, IF conn[c].pass = "first" THEN "waiting" ELSE "verify")
    /\ UNCHANGED <<next, subs, alive, valid, server>>

PopAndSend(c) ==
    /\ conn[c].at = "popping" /\ queue[c] # <<>> /\ c \in alive
    /\ queue' = [queue EXCEPT ![c] = Tail(@)]
    /\ GotoAfter(c, "draining", IF conn[c].pass = "message" THEN "message" ELSE "some")
    /\ UNCHANGED <<next, subs, alive, valid, pub>>

(* The send raises WebSocketDisconnect, or the pop raises IndexError.      *)
PopAndFail(c) ==
    /\ conn[c].at = "popping" /\ (queue[c] = <<>> \/ c \notin alive)
    /\ queue' = [queue EXCEPT ![c] = IF @ = <<>> THEN @ ELSE Tail(@)]
    /\ Leave(c)
    /\ UNCHANGED <<next, alive, valid, pub>>

AfterWaitAgain == "waiting"   \* slip: waits again without looking at the queue

AfterWait == "verify"

WaitElapses(c) ==
    /\ conn[c].at = "waiting"
    /\ Goto(c, AfterWait)
    /\ UNCHANGED <<next, subs, alive, valid, server>>

(* A heartbeat drains again before the token is looked at.                 *)
ClientMessage(c) ==
    /\ conn[c].at = "waiting" /\ c \in alive
    /\ GotoAfter(c, "draining", "message")
    /\ UNCHANGED <<next, subs, alive, valid, server>>

SeeDisconnect(c) ==
    /\ conn[c].at = "waiting" /\ c \notin alive
    /\ Leave(c)
    /\ UNCHANGED <<next, alive, valid, server>>

Disconnect(c) ==
    /\ c \in alive
    /\ alive' = alive \ {c}
    /\ UNCHANGED <<next, subs, conn, valid, server>>

(* The token expires or the membership ends.                               *)
Expire(u) ==
    /\ u \in valid
    /\ valid' = valid \ {u}
    /\ UNCHANGED <<next, subs, conn, alive, server>>

-----------------------------------------------------------------------------
Free(p) ==
    pub[p].at \in {"idle", "failed"} \/ (pub[p].at = "sending" /\ pub[p].targets = <<>>)

PubGoto(p, at) == pub' = [pub EXCEPT ![p] = [@ EXCEPT !.at = at]]
PubTarget(p, at, targets) == pub' = [pub EXCEPT ![p] = [@ EXCEPT !.at = at, !.targets = targets]]

Build(p, private, audience) ==
    /\ Free(p) /\ next < MaxNumber
    /\ pub' = [pub EXCEPT ![p] =
                 [at |-> "built", targets |-> <<>>,
                  env |-> [private |-> private, audience |-> audience]]]
    /\ next' = next + 1
    /\ UNCHANGED <<subs, queue, conn, alive, valid>>

Snapshot(p) ==
    /\ pub[p].at = "built"
    /\ PubTarget(p, "sending", subs)
    /\ UNCHANGED <<next, subs, queue, conn, alive, valid>>

(* _audiences holds the user of a queue while the queue is subscribed.     *)
AudienceOf(c) == IF Contains(subs, c) THEN conn[c].user ELSE Nobody

Addressed(env, c) ==
    env.private => env.audience # Nobody /\ AudienceOf(c) = env.audience

FullOffByOne(c) == Len(queue[c]) > Depth   \* slip: > for >=

Full(c) == Len(queue[c]) >= Depth

Target(p) == Head(pub[p].targets)

Trying(p, at) == pub[p].at = at /\ pub[p].targets # <<>>

(* This queue is done with; the loop goes on, or is over.                  *)
Past(p, at) == PubTarget(p, at, Tail(pub[p].targets))

Skip(p) ==
    /\ Trying(p, "sending") /\ ~Addressed(pub[p].env, Target(p))
    /\ Past(p, "sending")
    /\ UNCHANGED <<next, subs, queue, conn, alive, valid>>

(* put_nowait: full() first.                                               *)
Try(p) ==
    /\ Trying(p, "sending") /\ Addressed(pub[p].env, Target(p))
    /\ PubGoto(p, IF Full(Target(p)) THEN "evict" ELSE "put")
    /\ UNCHANGED <<next, subs, queue, conn, alive, valid>>

Put(p) ==
    /\ Trying(p, "put")
    /\ queue' = [queue EXCEPT ![Target(p)] = Append(@, pub[p].env)]
    /\ Past(p, "sending")
    /\ UNCHANGED <<next, subs, conn, alive, valid>>

(* The queue was full: get_nowait asks empty() and then pops the oldest.   *)
Evict(p) ==
    /\ Trying(p, "evict")
    /\ \/ /\ queue[Target(p)] # <<>>
          /\ PubGoto(p, "pop")
       \/ /\ queue[Target(p)] = <<>>
          /\ Past(p, "sending")
    /\ UNCHANGED <<next, subs, queue, conn, alive, valid>>

Pop(p) ==
    /\ Trying(p, "pop") /\ queue[Target(p)] # <<>>
    /\ queue' = [queue EXCEPT ![Target(p)] = Tail(@)]
    /\ PubGoto(p, "again")
    /\ UNCHANGED <<next, subs, conn, alive, valid>>

(* IndexError is not caught: the queues that remain get nothing.           *)
PopFails(p) ==
    /\ Trying(p, "pop") /\ queue[Target(p)] = <<>>
    /\ Past(p, "failed")
    /\ UNCHANGED <<next, subs, queue, conn, alive, valid>>

TryAgain(p) ==
    /\ Trying(p, "again")
    /\ \/ /\ ~Full(Target(p))
          /\ PubGoto(p, "put")
       \/ /\ Full(Target(p))
          /\ Past(p, "sending")
    /\ UNCHANGED <<next, subs, queue, conn, alive, valid>>

-----------------------------------------------------------------------------
StreamInit ==
    /\ next = 0
    /\ subs = <<>>
    /\ queue = [c \in Conns |-> <<>>]
    /\ conn = [c \in Conns |-> [at |-> "none", user |-> Nobody, pass |-> "first"]]
    /\ alive = {}
    /\ valid = Users
    /\ pub = [p \in Threads |->
                [at |-> "idle", targets |-> <<>>, env |-> NoEnvelope]]

Handler(c) ==
    \/ Subscribe(c) \/ Welcome(c) \/ MissWelcome(c) \/ Verify(c)
    \/ DrainMore(c) \/ DrainDone(c) \/ PopAndSend(c) \/ PopAndFail(c)
    \/ WaitElapses(c) \/ SeeDisconnect(c)

Publish(p) ==
    \/ Snapshot(p) \/ Skip(p) \/ Try(p) \/ Put(p)
    \/ Evict(p) \/ Pop(p) \/ PopFails(p) \/ TryAgain(p)

StreamNext ==
    \/ \E c \in Conns :
          \/ (\E u \in Users : Connect(c, u))
          \/ Handler(c) \/ ClientMessage(c) \/ Disconnect(c)
    \/ \E u \in Users : Expire(u)
    \/ \E p \in Threads :
          \/ Build(p, FALSE, Nobody)
          \/ \E u \in Users \cup {Nobody} : Build(p, TRUE, u)
          \/ Publish(p)

StreamSpec == StreamInit /\ [][StreamNext]_streamVars

(* The event loop resumes every handler whose await is over, and the       *)
(* 50 ms wait is over at some time. Nothing obliges a client to connect,   *)
(* to leave or to send, nor a handler to publish.                          *)
FairSpec ==
    /\ StreamSpec
    /\ \A c \in Conns : WF_streamVars(Handler(c)) /\ SF_streamVars(SeeDisconnect(c))

-----------------------------------------------------------------------------
Sockets ==
    [at : {"none", "accepted", "subscribed", "verify", "draining", "popping", "waiting", "closed"},
     user : Users \cup {Nobody}, pass : {"first", "some", "message"}]

Calls ==
    [at : {"idle", "built", "sending", "put", "evict", "pop", "again", "failed"},
     targets : Seq(Conns), env : Envelope]

TypeOK ==
    /\ next \in Nat
    /\ subs \in Seq(Conns)
    /\ queue \in [Conns -> Seq(Envelope)]
    /\ conn \in [Conns -> Sockets]
    /\ alive \in SUBSET Conns /\ valid \in SUBSET Users
    /\ pub \in [Threads -> Calls]

(* The threads that race for the last place may exceed the bound, by one   *)
(* envelope each at most.                                                  *)
OvershootBounded ==
    \A c \in Conns : Len(queue[c]) < Depth + Cardinality(Threads)

(* Once publishing pauses (it ends at MaxNumber), a client whose token     *)
(* expired, or that went away, loses its connection: the handler looks at  *)
(* the token only when a drain has found the queue empty.                  *)
ExpiredLeaves ==
    \A c \in Conns :
        (Attended(c) /\ (conn[c].user \notin valid \/ c \notin alive)) ~> conn[c].at = "closed"

(* Once publishing pauses (it ends at MaxNumber), what is buffered for a   *)
(* client is sent or displaced, or the client leaves.                      *)
QueuedIsDrained ==
    \A c \in Conns : (queue[c] # <<>>) ~> (queue[c] = <<>> \/ conn[c].at = "closed")
=============================================================================
