----------------------------- MODULE DriverChannel -----------------------------
(***************************************************************************)
(* The JSON-RPC channel between invocations of the CLI and one detached    *)
(* driver: two FIFOs that every attached client has open at both ends.     *)
(*                                                                         *)
(*   a client    writes a request, then waits for the answer that carries  *)
(*               its id; a thread of its own reads the response FIFO into  *)
(*               an in-memory queue                                        *)
(*   the driver  is one event loop: it dispatches requests as they come,   *)
(*               handlers end in any order, and each answer is written     *)
(*               with a blocking write                                     *)
(*                                                                         *)
(* Nothing says which client a line of the response FIFO is for: whichever *)
(* reader thread comes first takes it.                                     *)
(***************************************************************************)
EXTENDS Integers, Sequences, FiniteSets

CONSTANTS
  Clients,      \* invocations that attach to the driver
  Seed,         \* Seed[c]: seed_id() of client c, from the nanoseconds of its clock
  MaxOps,       \* bound: calls that a client makes
  Timeout,      \* UIBOX_RPC_TIMEOUT
  MaxTime,      \* bound on the clock
  MaxAttached,  \* how many clients the caller lets run at a time
  Capacity,     \* messages a FIFO holds before a writer blocks
  BareNames,    \* the method names the driver answers: {FALSE} for `driver.act`,
                \* {TRUE} for `act`
  Outcomes,     \* what a handler may answer
  Patient,      \* FALSE if a client may be killed
  DriverFaults  \* may the driver die?

\* A call is tried at most twice, so a client uses at most 2 * MaxOps ids.
MaxIds == 2 * MaxOps

ASSUME ChannelOK ==
  /\ MaxOps \in Nat /\ Timeout \in Nat /\ MaxTime \in Nat /\ MaxAttached \in Nat
  /\ Capacity \in Nat \ {0}
  /\ Outcomes \subseteq {"result", "error", "mentions"} /\ BareNames \subseteq BOOLEAN
  /\ {Patient, DriverFaults} \subseteq BOOLEAN

\* No two clients start from clocks so close that their ids meet.
ASSUME SeedsApart ==
  /\ Seed \in [Clients -> Nat]
  /\ \A c, d \in Clients : c # d => \/ Seed[c] + MaxIds < Seed[d]
                                    \/ Seed[d] + MaxIds < Seed[c]

VARIABLES
  now,
  pc,        \* "out", "idle", "writing", "waiting", "retry" or "gone"
  op, tries, \* the number of its current call, and of ids it has used
  bare,      \* has the client dropped the prefix of its method names?
  queue,     \* what its reader thread has read and it has not yet looked at
  since,     \* when it last started to wait for a message
  asked,     \* when it sent the request it waits for (a history variable)
  returned,  \* the answers its calls returned (a history variable)
  requests,  \* the request FIFO
  proc,      \* "up" or "down"
  serving,   \* requests whose handler has started
  writing,   \* the answers the event loop is in the middle of writing
  replies,   \* the response FIFO
  half,      \* clients whose thread has the beginning of a line, and another the end
  executed   \* handlers started, per client and call (a history variable)

fifos  == <<requests, replies, half>>
driver == <<proc, serving, writing, executed>>
client == <<pc, op, tries, bare, queue, since, asked, returned>>
vars   == <<now, fifos, driver, client>>

\* "unknown": no such method.  "mentions": an error of a handler whose text
\* happens to say `unknown method` or `method not found`.
Bodies   == {"request", "result", "error", "mentions", "unknown", "timeout"}
Messages == [from : Clients, op : 1 .. MaxOps, try : 1 .. MaxIds,
             bare : BOOLEAN, body : Bodies]

\* The id on the wire: an answer has the id of its request, and nothing else.
Id(m) == Seed[m.from] + m.try

\* An answer to a request.
Answer(m, body) == [from |-> m.from, op |-> m.op, try |-> m.try, bare |-> m.bare,
                    body |-> body]

\* The request client c is in the middle of.
Request(c) == [from |-> c, op |-> op[c], try |-> tries[c], bare |-> bare[c],
               body |-> "request"]

Attached == {c \in Clients : pc[c] \notin {"out", "gone"}}

TypeOK ==
  /\ now \in 0 .. MaxTime
  /\ pc \in [Clients -> {"out", "idle", "retry", "writing", "waiting", "gone"}]
  /\ op \in [Clients -> 0 .. MaxOps] /\ tries \in [Clients -> 0 .. MaxIds]
  /\ bare \in [Clients -> BOOLEAN]
  /\ queue \in [Clients -> Seq(Messages)]
  /\ since \in [Clients -> 0 .. MaxTime] /\ asked \in [Clients -> 0 .. MaxTime]
  /\ returned \in [Clients -> SUBSET Messages]
  /\ requests \in Seq(Messages) /\ replies \in Seq(Messages) /\ half \subseteq Clients
  /\ proc \in {"up", "down"}
  /\ serving \subseteq Messages
  /\ writing \in {{}} \cup {{m} : m \in Messages}
  /\ executed \in [Clients \X (1 .. MaxOps) -> Nat]

Init ==
  /\ now = 0
  /\ pc = [c \in Clients |-> "out"]
  /\ op = [c \in Clients |-> 0] /\ tries = [c \in Clients |-> 0]
  /\ bare = [c \in Clients |-> FALSE]
  /\ queue = [c \in Clients |-> <<>>]
  /\ since = [c \in Clients |-> 0] /\ asked = [c \in Clients |-> 0]
  /\ returned = [c \in Clients |-> {}]
  /\ requests = <<>> /\ replies = <<>> /\ half = {}
  /\ proc = "up" /\ serving = {} /\ writing = {}
  /\ executed = [call \in Clients \X (1 .. MaxOps) |-> 0]

--------------------------------------------------------------------------------
(***************************************************************************)
(* The client                                                              *)
(***************************************************************************)

\* Connection::attach opens both FIFOs and starts the reader thread.
Attach(c) ==
  /\ pc[c] = "out" /\ Cardinality(Attached) < MaxAttached
  /\ pc' = [pc EXCEPT ![c] = "idle"]
  /\ UNCHANGED <<now, fifos, driver, op, tries, bare, queue, since, asked, returned>>

\* The thread takes the next line.  After the beginning of another line it does
\* not parse, and is dropped as a note.
TakeLine(c) ==
  /\ replies # <<>>
  /\ queue' = IF c \in half THEN queue ELSE [queue EXCEPT ![c] = Append(@, Head(replies))]
  /\ half' = half \ {c}
  /\ replies' = Tail(replies)
  /\ UNCHANGED <<now, requests, driver, pc, op, tries, bare, since, asked, returned>>

\* Faulty variant: no thread, the FIFO is read only while an answer is awaited.
ReadWhenWaiting(c) == pc[c] = "waiting" /\ TakeLine(c)

\* Reader thread: the next line of the response FIFO, whoever asked for it.
Read(c) == c \in Attached /\ TakeLine(c)

\* Two threads read parts of one line: what d has does not parse, and c still
\* waits for the end of what it has.
ReadTorn(c, d) ==
  /\ {c, d} \subseteq Attached /\ c # d /\ replies # <<>>
  /\ half' = (half \cup {c}) \ {d}
  /\ replies' = Tail(replies)
  /\ UNCHANGED <<now, requests, driver, client>>

\* call_raw: what has been read so far is discarded, and an id is taken.
Begin(c, o) ==
  /\ queue' = [queue EXCEPT ![c] = <<>>]
  /\ op' = [op EXCEPT ![c] = o]
  /\ tries' = [tries EXCEPT ![c] = @ + 1]
  /\ pc' = [pc EXCEPT ![c] = "writing"]
  /\ UNCHANGED <<now, fifos, driver, bare, since, asked, returned>>

Call(c)  == pc[c] = "idle" /\ op[c] < MaxOps /\ Begin(c, op[c] + 1)
Retry(c) == pc[c] = "retry" /\ Begin(c, op[c])

\* write_all blocks while the request FIFO is full.
Send(c) ==
  /\ pc[c] = "writing" /\ Len(requests) < Capacity
  /\ requests' = Append(requests, Request(c))
  /\ since' = [since EXCEPT ![c] = now]
  /\ asked' = [asked EXCEPT ![c] = now]
  /\ pc' = [pc EXCEPT ![c] = "waiting"]
  /\ UNCHANGED <<now, replies, half, driver, op, tries, bare, queue, returned>>

\* Faulty variants: what was read after the drain is the answer, or whatever was
\* asked by this client is.
MineIfAny(c, m)    == m.body # "request"
MineByClient(c, m) == m.from = c

\* The answer carries the id that is waited for.
Mine(c, m) == Id(m) = Id(Request(c))

\* recv_timeout yields a message with another id: the wait starts over.
Skip(c) ==
  /\ pc[c] = "waiting" /\ queue[c] # <<>>
  /\ ~Mine(c, Head(queue[c]))
  /\ queue' = [queue EXCEPT ![c] = Tail(@)]
  /\ since' = [since EXCEPT ![c] = now]
  /\ UNCHANGED <<now, fifos, driver, pc, op, tries, bare, asked, returned>>

Return(c, m) ==
  /\ returned' = [returned EXCEPT ![c] = @ \cup {m}]
  /\ pc' = [pc EXCEPT ![c] = "idle"]
  /\ UNCHANGED bare

\* Faulty variant: the call is made again under the same name.
KeepPrefix(c) ==
  /\ pc' = [pc EXCEPT ![c] = "retry"]
  /\ UNCHANGED <<bare, returned>>

\* The method is unknown under its qualified name: the prefix is dropped, for
\* this call and for every later one of this client.
DropPrefix(c) ==
  /\ bare' = [bare EXCEPT ![c] = TRUE]
  /\ pc' = [pc EXCEPT ![c] = "retry"]
  /\ UNCHANGED returned

\* unknown_method: by the code of the error, or by its text.
UnknownMethod(m) == m.body \in {"unknown", "mentions"}

Receive(c) ==
  /\ pc[c] = "waiting" /\ queue[c] # <<>>
  /\ LET m == Head(queue[c])
     IN  /\ Mine(c, m)
         /\ IF UnknownMethod(m) /\ ~bare[c] THEN DropPrefix(c) ELSE Return(c, m)
  /\ queue' = [queue EXCEPT ![c] = Tail(@)]
  /\ UNCHANGED <<now, fifos, driver, op, tries, since, asked>>

\* recv_timeout elapses with nothing read: a Timeout, or Exited of a dead driver.
Overdue(c) == pc[c] = "waiting" /\ queue[c] = <<>> /\ now >= since[c] + Timeout

GiveUp(c) ==
  /\ Overdue(c)
  /\ Return(c, Answer(Request(c), "timeout"))
  /\ UNCHANGED <<now, fifos, driver, op, tries, queue, since, asked>>

\* The process ends, or is killed, and takes what its thread has read with it.
Leave(c) ==
  /\ pc[c] = "idle" \/ (~Patient /\ c \in Attached)
  /\ pc' = [pc EXCEPT ![c] = "gone"]
  /\ queue' = [queue EXCEPT ![c] = <<>>]
  /\ UNCHANGED <<now, fifos, driver, op, tries, bare, since, asked, returned>>

--------------------------------------------------------------------------------
(***************************************************************************)
(* The driver                                                              *)
(***************************************************************************)

\* A blocking write stops the event loop: nothing else runs until it is done.
Free == proc = "up" /\ writing = {}

\* dispatch: a method the driver has no handler for is refused at once.
Dispatch ==
  /\ Free /\ requests # <<>>
  /\ LET m == Head(requests)
     IN  IF m.bare \in BareNames
           THEN /\ serving' = serving \cup {m}
                /\ executed' = [executed EXCEPT ![<<m.from, m.op>>] = @ + 1]
                /\ UNCHANGED writing
           ELSE /\ writing' = {Answer(m, "unknown")}
                /\ UNCHANGED <<serving, executed>>
  /\ requests' = Tail(requests)
  /\ UNCHANGED <<now, replies, half, proc, client>>

\* A handler ends, in its own time.
Finish(m) ==
  /\ Free /\ m \in serving
  /\ serving' = serving \ {m}
  /\ \E body \in Outcomes : writing' = {Answer(m, body)}
  /\ UNCHANGED <<now, fifos, proc, executed, client>>

Flush ==
  /\ proc = "up" /\ Len(replies) < Capacity
  /\ \E m \in writing : replies' = Append(replies, m)
  /\ writing' = {}
  /\ UNCHANGED <<now, requests, half, proc, serving, executed, client>>

Die ==
  /\ DriverFaults /\ proc = "up"
  /\ proc' = "down" /\ serving' = {} /\ writing' = {}
  /\ UNCHANGED <<now, fifos, executed, client>>

\* A wait that is over is not overslept.
Tick ==
  /\ now < MaxTime /\ \A c \in Clients : ~Overdue(c)
  /\ now' = now + 1
  /\ UNCHANGED <<fifos, driver, client>>

--------------------------------------------------------------------------------
Client(c) == Call(c) \/ Retry(c) \/ Send(c) \/ Skip(c) \/ Receive(c) \/ GiveUp(c)
Driver    == Dispatch \/ (\E m \in serving : Finish(m)) \/ Flush

Next ==
  \/ Driver \/ Die \/ Tick \/ (\E c, d \in Clients : ReadTorn(c, d))
  \/ \E c \in Clients : Attach(c) \/ Read(c) \/ Leave(c) \/ Client(c)

Spec == Init /\ [][Next]_vars

\* Threads and the event loop are scheduled fairly, and every handler ends.
FairSpec ==
  /\ Spec
  /\ WF_vars(Dispatch) /\ WF_vars(Flush)
  /\ WF_vars(\E m \in serving : Finish(m))
  /\ \A c \in Clients : WF_vars(Read(c)) /\ WF_vars(Client(c))

--------------------------------------------------------------------------------
\* What a call returns answers that very call, however many clients share the
\* FIFOs, whatever an earlier call that timed out has left in them, and whoever
\* was killed: the id is enough.
OwnAnswer ==
  \A c \in Clients : \A m \in returned[c] : m.from = c

\* No call returns twice, and none returns an answer to another call of the
\* same client: the answer of a call that timed out is never taken for its own.
OneAnswerEach ==
  \A c \in Clients : \A m, n \in returned[c] : m.op = n.op => m = n

\* A call is carried out at most once: the second try, under the bare name, is
\* made only if the first one reached no handler.
ExecutedOnce == \A call \in DOMAIN executed : executed[call] <= 1

\* A caller that is alone on the channel is answered, whatever killed clients
\* have left unread in the FIFOs, and even if they are full.
CallsReturn ==
  \A c \in Clients : pc[c] \in {"writing", "waiting", "retry"} ~> pc[c] \in {"idle", "gone"}

\* "seconds to wait on the browser before giving up": a request is answered or
\* given up within UIBOX_RPC_TIMEOUT of having been sent.
GivesUpInTime ==
  \A c \in Clients : pc[c] = "waiting" => now <= asked[c] + Timeout

\* "Method names go on the wire verbatim, namespace included": a client whose
\* qualified call the driver has carried out never sends it a bare name.
KeepsNamespace ==
  \A n \in DOMAIN requests :
    requests[n].bare => \A o \in 1 .. MaxOps : executed[<<requests[n].from, o>>] = 0
================================================================================
