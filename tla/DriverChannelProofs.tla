-------------------------- MODULE DriverChannelProofs --------------------------
(***************************************************************************)
(* Theorems about DriverChannel, for every number of clients that share    *)
(* the FIFOs, every capacity of the FIFOs, and every driver.               *)
(***************************************************************************)
EXTENDS DriverChannel, TLAPS

\* Every message of a queue has property P of its id: what the FIFO operations
\* keep.  Elements are named by their index.
LEMMA Appended ==
  ASSUME NEW S, NEW s \in Seq(S), NEW m \in S
  PROVE  /\ Append(s, m) \in Seq(S)
         /\ \A n \in 1 .. Len(Append(s, m)) :
              Append(s, m)[n] = m \/ \E k \in 1 .. Len(s) : Append(s, m)[n] = s[k]
OBVIOUS

LEMMA Taken ==
  ASSUME NEW S, NEW s \in Seq(S), s # <<>>
  PROVE  /\ Head(s) \in S /\ Tail(s) \in Seq(S)
         /\ 1 \in 1 .. Len(s) /\ Head(s) = s[1]
         /\ \A n \in 1 .. Len(Tail(s)) : n + 1 \in 1 .. Len(s) /\ Tail(s)[n] = s[n + 1]
OBVIOUS

--------------------------------------------------------------------------------
(***************************************************************************)
(* Types.  A call uses at most two ids: the second try is made only under  *)
(* the bare name, which is never tried again.                              *)
(***************************************************************************)
TriesInv ==
  \A c \in Clients :
    /\ tries[c] <= 2 * op[c]
    /\ pc[c] = "retry" => tries[c] < 2 * op[c] /\ bare[c]
    /\ pc[c] \in {"writing", "waiting"} /\ ~bare[c] => tries[c] < 2 * op[c]
    /\ pc[c] \in {"writing", "waiting", "retry"} => op[c] > 0 /\ tries[c] > 0

LEMMA RequestTyped ==
  ASSUME TypeOK, TriesInv, NEW c \in Clients, pc[c] \in {"writing", "waiting"}
  PROVE  Request(c) \in Messages
BY ChannelOK DEF TypeOK, TriesInv, Request, Messages, Bodies, MaxIds

LEMMA AnswerTyped ==
  ASSUME NEW m \in Messages, NEW b \in Bodies
  PROVE  Answer(m, b) \in Messages
BY DEF Answer, Messages

LEMMA BeginTyped ==
  ASSUME TypeOK, TriesInv, NEW c \in Clients, Call(c) \/ Retry(c)
  PROVE  TypeOK' /\ TriesInv'
<1>1. PICK o \in 1 .. MaxOps :
        /\ Begin(c, o) /\ tries[c] < 2 * o /\ o >= op[c]
        /\ pc[c] = "retry" => bare[c] /\ o = op[c]
        /\ ~bare[c] => tries[c] + 1 < 2 * o
  <2>1. CASE Call(c)
    <3>1. /\ op[c] \in Nat /\ tries[c] \in Nat /\ MaxOps \in Nat
          /\ op[c] < MaxOps /\ tries[c] <= 2 * op[c]
      BY <2>1, ChannelOK DEF Call, TypeOK, TriesInv
    <3>2. op[c] + 1 \in 1 .. MaxOps /\ tries[c] + 1 < 2 * (op[c] + 1)
      BY <3>1
    <3>3. pc[c] = "idle" /\ Begin(c, op[c] + 1)
      BY <2>1 DEF Call
    <3> QED
      BY <3>1, <3>2, <3>3
  <2>2. CASE Retry(c)
    BY <2>2, ChannelOK DEF Retry, TypeOK, TriesInv
  <2> QED
    BY <2>1, <2>2
<1>2. tries[c] + 1 \in 0 .. MaxIds /\ <<>> \in Seq(Messages)
  BY <1>1, ChannelOK DEF TypeOK, MaxIds
<1>3. TypeOK'
  BY <1>1, <1>2 DEF Begin, TypeOK, fifos, driver
<1>4. TriesInv'
  <2>1. /\ \A d \in Clients : d # c => /\ op'[d] = op[d] /\ tries'[d] = tries[d]
                                       /\ pc'[d] = pc[d]
        /\ op'[c] = o /\ tries'[c] = tries[c] + 1 /\ pc'[c] = "writing"
        /\ bare' = bare
    BY <1>1 DEF Begin, TypeOK
  <2>2. o \in Nat /\ tries[c] \in Nat /\ o > 0
    BY <1>1, ChannelOK DEF TypeOK
  <2> QED
    BY <1>1, <2>1, <2>2 DEF TriesInv
<1> QED
  BY <1>3, <1>4

LEMMA ClientTyped ==
  ASSUME TypeOK, TriesInv, NEW c \in Clients, Client(c)
  PROVE  TypeOK' /\ TriesInv'
<1> USE DEF fifos, driver
<1>1. CASE Call(c) \/ Retry(c)
  BY <1>1, BeginTyped
<1>2. CASE Send(c)
  <2>1. requests' \in Seq(Messages)
    BY <1>2, RequestTyped, Appended DEF Send, TypeOK
  <2>2. TypeOK'
    BY <1>2, <2>1 DEF Send, TypeOK
  <2>3. TriesInv'
    BY <1>2 DEF Send, TypeOK, TriesInv
  <2> QED
    BY <2>2, <2>3
<1>3. CASE Skip(c)
  <2>1. Tail(queue[c]) \in Seq(Messages)
    BY <1>3, Taken DEF Skip, TypeOK
  <2>2. TypeOK'
    BY <1>3, <2>1 DEF Skip, TypeOK
  <2>3. TriesInv'
    BY <1>3 DEF Skip, TypeOK, TriesInv
  <2> QED
    BY <2>2, <2>3
<1>4. CASE Receive(c)
  <2>1. Head(queue[c]) \in Messages /\ Tail(queue[c]) \in Seq(Messages)
    BY <1>4, Taken DEF Receive, TypeOK
  <2>2. \/ DropPrefix(c) /\ ~bare[c]
        \/ Return(c, Head(queue[c]))
    BY <1>4 DEF Receive
  <2>3. TypeOK'
    <3>1. CASE DropPrefix(c)
      BY <1>4, <2>1, <3>1 DEF Receive, DropPrefix, TypeOK
    <3>2. CASE Return(c, Head(queue[c]))
      <4>1. returned' \in [Clients -> SUBSET Messages]
        BY <2>1, <3>2 DEF Return, TypeOK
      <4> QED
        BY <1>4, <2>1, <3>2, <4>1 DEF Receive, Return, TypeOK
    <3> QED
      BY <2>2, <3>1, <3>2
  <2>4. TriesInv'
    BY <1>4, <2>2 DEF Receive, DropPrefix, Return, TypeOK, TriesInv
  <2> QED
    BY <2>3, <2>4
<1>5. CASE GiveUp(c)
  <2>1. Answer(Request(c), "timeout") \in Messages
    BY <1>5, RequestTyped, AnswerTyped DEF GiveUp, Overdue, Bodies
  <2>2. TypeOK'
    BY <1>5, <2>1 DEF GiveUp, Return, TypeOK
  <2>3. TriesInv'
    BY <1>5 DEF GiveUp, Return, TypeOK, TriesInv
  <2> QED
    BY <2>2, <2>3
<1> QED
  BY <1>1, <1>2, <1>3, <1>4, <1>5 DEF Client

LEMMA DriverTyped ==
  ASSUME TypeOK, TriesInv, Driver \/ Die
  PROVE  TypeOK' /\ TriesInv'
<1> USE DEF fifos, client
<1>1. CASE Dispatch
  <2>1. Head(requests) \in Messages /\ Tail(requests) \in Seq(Messages)
    BY <1>1, Taken DEF Dispatch, TypeOK
  <2>2. Answer(Head(requests), "unknown") \in Messages
    BY <2>1, AnswerTyped DEF Bodies
  <2>3. <<Head(requests).from, Head(requests).op>> \in Clients \X (1 .. MaxOps)
    BY <2>1 DEF Messages
  <2>4. executed' \in [Clients \X (1 .. MaxOps) -> Nat]
    <3>1. executed[<<Head(requests).from, Head(requests).op>>] + 1 \in Nat
      BY <2>3 DEF TypeOK
    <3>2. \/ executed' = executed
          \/ executed' = [executed EXCEPT ![<<Head(requests).from, Head(requests).op>>] =
                             executed[<<Head(requests).from, Head(requests).op>>] + 1]
      BY <1>1 DEF Dispatch
    <3> QED
      BY <2>3, <3>1, <3>2 DEF TypeOK
  <2>5. TypeOK'
    BY <1>1, <2>1, <2>2, <2>4 DEF Dispatch, TypeOK
  <2>6. TriesInv'
    BY <1>1 DEF Dispatch, TriesInv
  <2> QED
    BY <2>5, <2>6
<1>2. ASSUME NEW m \in serving, Finish(m) PROVE TypeOK' /\ TriesInv'
  <2>1. \A b \in Outcomes : Answer(m, b) \in Messages
    BY AnswerTyped, ChannelOK DEF TypeOK, Bodies
  <2> QED
    BY <1>2, <2>1 DEF Finish, TypeOK, TriesInv
<1>3. CASE Flush
  <2>1. PICK m \in writing : replies' = Append(replies, m)
    BY <1>3 DEF Flush
  <2>2. replies' \in Seq(Messages)
    BY <2>1, Appended DEF TypeOK
  <2> QED
    BY <1>3, <2>2 DEF Flush, TypeOK, TriesInv
<1>4. CASE Die
  BY <1>4 DEF Die, TypeOK, TriesInv
<1> QED
  BY <1>1, <1>2, <1>3, <1>4 DEF Driver

LEMMA TypeStep == TypeOK /\ TriesInv /\ [Next]_vars => TypeOK' /\ TriesInv'
<1> SUFFICES ASSUME TypeOK, TriesInv, [Next]_vars PROVE TypeOK' /\ TriesInv'
  OBVIOUS
<1> USE DEF fifos, driver, client
<1>1. CASE Driver \/ Die
  BY <1>1, DriverTyped
<1>2. CASE Tick
  BY <1>2, ChannelOK DEF Tick, TypeOK, TriesInv
<1>3. ASSUME NEW c \in Clients, NEW d \in Clients, ReadTorn(c, d)
      PROVE  TypeOK' /\ TriesInv'
  BY <1>3, Taken DEF ReadTorn, TypeOK, TriesInv
<1>4. ASSUME NEW c \in Clients, Attach(c) PROVE TypeOK' /\ TriesInv'
  BY <1>4 DEF Attach, TypeOK, TriesInv
<1>5. ASSUME NEW c \in Clients, Read(c) PROVE TypeOK' /\ TriesInv'
  <2>1. Head(replies) \in Messages /\ Tail(replies) \in Seq(Messages)
    BY <1>5, Taken DEF Read, TakeLine, TypeOK
  <2>2. Append(queue[c], Head(replies)) \in Seq(Messages)
    BY <2>1, Appended DEF TypeOK
  <2> QED
    BY <1>5, <2>1, <2>2 DEF Read, TakeLine, TypeOK, TriesInv
<1>6. ASSUME NEW c \in Clients, Leave(c) PROVE TypeOK' /\ TriesInv'
  <2>1. <<>> \in Seq(Messages)
    OBVIOUS
  <2> QED
    BY <1>6, <2>1 DEF Leave, TypeOK, TriesInv
<1>7. ASSUME NEW c \in Clients, Client(c) PROVE TypeOK' /\ TriesInv'
  BY <1>7, ClientTyped
<1>8. CASE UNCHANGED vars
  BY <1>8 DEF vars, TypeOK, TriesInv
<1> QED
  BY <1>1, <1>2, <1>3, <1>4, <1>5, <1>6, <1>7, <1>8 DEF Next

LEMMA InitTyped == Init => TypeOK /\ TriesInv
<1> SUFFICES ASSUME Init PROVE TypeOK /\ TriesInv
  OBVIOUS
<1>1. <<>> \in Seq(Messages)
  OBVIOUS
<1>2. 0 \in 0 .. MaxOps /\ 0 \in 0 .. MaxIds /\ 0 \in 0 .. MaxTime
  BY ChannelOK DEF MaxIds
<1>3. TypeOK
  BY <1>1, <1>2 DEF Init, TypeOK
<1>4. TriesInv
  BY DEF Init, TriesInv
<1> QED
  BY <1>3, <1>4

\* The clients, the FIFOs and the driver keep their shapes, and no client runs
\* out of the ids that keep it apart from the others.
THEOREM ChannelTyped == Spec => [](TypeOK /\ TriesInv)
BY InitTyped, TypeStep, PTL DEF Spec

--------------------------------------------------------------------------------
(***************************************************************************)
(* Answers.  Whatever is in a FIFO, in a queue or in the driver belongs to *)
(* an id that was given out, and the last id of a client to its last call. *)
(***************************************************************************)
Sound(m) == /\ m.try <= tries[m.from]
            /\ m.try = tries[m.from] => m.op = op[m.from]

SoundInv ==
  /\ \A n \in 1 .. Len(requests) : Sound(requests[n])
  /\ \A n \in 1 .. Len(replies) : Sound(replies[n])
  /\ \A m \in serving \cup writing : Sound(m)
  /\ \A c \in Clients : \A n \in 1 .. Len(queue[c]) : Sound(queue[c][n])

\* A call in progress has not returned yet, and no call returned twice.
ReturnedInv ==
  \A c \in Clients :
    /\ \A m \in returned[c] :
         /\ m.from = c /\ m.op <= op[c]
         /\ pc[c] \in {"writing", "waiting", "retry"} => m.op < op[c]
    /\ \A m, n \in returned[c] : m.op = n.op => m = n

\* The ids of two clients never meet, so the id alone finds the right call.
LEMMA MineIsMine ==
  ASSUME TypeOK, TriesInv, NEW c \in Clients, pc[c] = "waiting",
         NEW m \in Messages, Sound(m), Mine(c, m)
  PROVE  m.from = c /\ m.op = op[c]
<1>1. Seed[m.from] + m.try = Seed[c] + tries[c]
  BY DEF Mine, Id, Request
<1>2. /\ Seed[m.from] \in Nat /\ Seed[c] \in Nat
      /\ m.try \in 1 .. MaxIds /\ tries[c] \in 0 .. MaxIds /\ MaxIds \in Nat
  BY SeedsApart, ChannelOK DEF TypeOK, Messages, MaxIds
<1>3. m.from = c
  BY <1>1, <1>2, SeedsApart DEF Messages
<1>4. m.try = tries[c]
  BY <1>1, <1>2, <1>3
<1> QED
  BY <1>3, <1>4 DEF Sound

LEMMA AnswerSound == \A m \in Messages : \A b \in Bodies : Sound(m) => Sound(Answer(m, b))
BY DEF Sound, Answer

LEMMA SoundKept ==
  ASSUME TypeOK, TriesInv, [Next]_vars, NEW m \in Messages, Sound(m)
  PROVE  Sound(m)'
<1>1. CASE UNCHANGED <<op, tries>>
  BY <1>1 DEF Sound
<1>2. ASSUME NEW c \in Clients, NEW o, Begin(c, o) PROVE Sound(m)'
  <2>1. /\ tries'[c] = tries[c] + 1 /\ tries[c] \in Nat
        /\ \A d \in Clients : d # c => tries'[d] = tries[d] /\ op'[d] = op[d]
    BY <1>2 DEF Begin, TypeOK
  <2>2. m.try \in Nat /\ m.from \in Clients
    BY ChannelOK DEF Messages, MaxIds
  <2> QED
    BY <2>1, <2>2 DEF Sound
<1>3. UNCHANGED <<op, tries>> \/ \E c \in Clients : Call(c) \/ Retry(c)
  BY DEF Next, Driver, Client, Dispatch, Finish, Flush, Die, Tick, ReadTorn, Attach, Read,
         TakeLine, Leave, Send, Skip, Receive, GiveUp, vars, client
<1> QED
  BY <1>1, <1>2, <1>3 DEF Call, Retry

LEMMA SoundStep ==
  TypeOK /\ TriesInv /\ SoundInv /\ [Next]_vars => SoundInv'
<1> SUFFICES ASSUME TypeOK, TriesInv, SoundInv, [Next]_vars PROVE SoundInv'
  OBVIOUS
<1> USE DEF fifos, driver, client
<1> DEFINE Good(m) == /\ m.try <= tries'[m.from]
                      /\ m.try = tries'[m.from] => m.op = op'[m.from]
<1>1. /\ requests \in Seq(Messages) /\ replies \in Seq(Messages)
      /\ queue \in [Clients -> Seq(Messages)]
      /\ serving \subseteq Messages /\ writing \subseteq Messages
  BY DEF TypeOK
<1>2. \A m \in Messages : Sound(m) => Good(m)
  BY SoundKept DEF Sound
<1>3. \A n \in 1 .. Len(requests) : Good(requests[n])
  <2> HIDE DEF Good
  <2> QED
    BY <1>1, <1>2 DEF SoundInv
<1>4. \A n \in 1 .. Len(replies) : Good(replies[n])
  <2> HIDE DEF Good
  <2> QED
    BY <1>1, <1>2 DEF SoundInv
<1>5. \A m \in serving \cup writing : Good(m)
  <2> HIDE DEF Good
  <2> QED
    BY <1>1, <1>2 DEF SoundInv
<1>6. \A c \in Clients : \A n \in 1 .. Len(queue[c]) : Good(queue[c][n])
  <2> HIDE DEF Good
  <2> QED
    BY <1>1, <1>2 DEF SoundInv
<1>7. ASSUME NEW m \in Messages, Good(m), NEW b PROVE Good(Answer(m, b))
  BY <1>7 DEF Answer
<1>8. SUFFICES
        /\ \A n \in 1 .. Len(requests') : Good(requests'[n])
        /\ \A n \in 1 .. Len(replies') : Good(replies'[n])
        /\ \A m \in serving' \cup writing' : Good(m)
        /\ \A c \in Clients : \A n \in 1 .. Len(queue'[c]) : Good(queue'[c][n])
  BY DEF SoundInv, Sound
<1> HIDE DEF Good
<1>9. CASE Driver \/ Die
  <2>1. CASE Dispatch
    <3>1. /\ Head(requests) \in Messages /\ Good(Head(requests))
          /\ \A n \in 1 .. Len(requests') : Good(requests'[n])
      BY <1>1, <1>3, <2>1, Taken DEF Dispatch
    <3>2. Good(Answer(Head(requests), "unknown"))
      BY <1>7, <3>1
    <3>3. \A m \in serving' \cup writing' : Good(m)
      BY <1>5, <2>1, <3>1, <3>2 DEF Dispatch
    <3> QED
      BY <1>4, <1>6, <2>1, <3>1, <3>3 DEF Dispatch
  <2>2. ASSUME NEW m \in serving, Finish(m)
        PROVE  /\ UNCHANGED <<requests, replies, queue>>
               /\ \A r \in serving' \cup writing' : Good(r)
    <3>1. \A b \in Outcomes : Good(Answer(m, b))
      BY <1>1, <1>5, <1>7
    <3> QED
      BY <1>5, <2>2, <3>1 DEF Finish
  <2>3. CASE Flush
    <3>1. PICK m \in writing : replies' = Append(replies, m)
      BY <2>3 DEF Flush
    <3>2. \A n \in 1 .. Len(replies') : Good(replies'[n])
      BY <1>1, <1>4, <1>5, <3>1, Appended
    <3> QED
      BY <1>3, <1>5, <1>6, <2>3, <3>2 DEF Flush
  <2>4. CASE Die
    BY <1>3, <1>4, <1>6, <2>4 DEF Die
  <2> QED
    BY <1>3, <1>4, <1>6, <1>9, <2>1, <2>2, <2>3, <2>4 DEF Driver
<1>10. CASE Tick \/ UNCHANGED vars
  BY <1>3, <1>4, <1>5, <1>6, <1>10 DEF Tick, vars
<1>11. ASSUME NEW c \in Clients, NEW d \in Clients, ReadTorn(c, d)
       PROVE  /\ \A n \in 1 .. Len(requests') : Good(requests'[n])
              /\ \A n \in 1 .. Len(replies') : Good(replies'[n])
              /\ \A m \in serving' \cup writing' : Good(m)
              /\ \A e \in Clients : \A n \in 1 .. Len(queue'[e]) : Good(queue'[e][n])
  <2>1. \A n \in 1 .. Len(replies') : Good(replies'[n])
    BY <1>1, <1>4, <1>11, Taken DEF ReadTorn
  <2> QED
    BY <1>3, <1>5, <1>6, <1>11, <2>1 DEF ReadTorn
<1>12. ASSUME NEW c \in Clients, Attach(c) \/ Leave(c) \/ Call(c) \/ Retry(c) \/ GiveUp(c)
       PROVE  /\ UNCHANGED <<requests, replies, serving, writing>>
              /\ \A d \in Clients : queue'[d] = queue[d] \/ queue'[d] = <<>>
  BY <1>1, <1>12 DEF Attach, Leave, Call, Retry, Begin, GiveUp
<1>13. ASSUME NEW c \in Clients, Read(c)
       PROVE  /\ UNCHANGED <<requests, serving, writing>>
              /\ \A n \in 1 .. Len(replies') : Good(replies'[n])
              /\ \A d \in Clients : \A n \in 1 .. Len(queue'[d]) : Good(queue'[d][n])
  <2>1. /\ Head(replies) \in Messages /\ Good(Head(replies))
        /\ \A n \in 1 .. Len(replies') : Good(replies'[n])
    BY <1>1, <1>4, <1>13, Taken DEF Read, TakeLine
  <2>2. \A n \in 1 .. Len(queue'[c]) : Good(queue'[c][n])
    <3>1. /\ queue[c] \in Seq(Messages)
          /\ queue'[c] = Append(queue[c], Head(replies)) \/ queue' = queue
      BY <1>1, <1>13 DEF Read, TakeLine
    <3> QED
      BY <1>6, <2>1, <3>1, Appended
  <2>3. \A d \in Clients : d # c => queue'[d] = queue[d]
    BY <1>1, <1>13 DEF Read, TakeLine
  <2> QED
    BY <1>6, <1>13, <2>1, <2>2, <2>3 DEF Read, TakeLine
<1>14. ASSUME NEW c \in Clients, Send(c)
       PROVE  /\ UNCHANGED <<replies, serving, writing, queue>>
              /\ \A n \in 1 .. Len(requests') : Good(requests'[n])
  <2>1. Request(c) \in Messages
    BY <1>14, RequestTyped DEF Send
  <2>2. Good(Request(c))
    BY <1>14 DEF Good, Request, Send, TypeOK
  <2> QED
    BY <1>1, <1>3, <1>14, <2>1, <2>2, Appended DEF Send
<1>15. ASSUME NEW c \in Clients, Skip(c) \/ Receive(c)
       PROVE  /\ UNCHANGED <<requests, replies, serving, writing>>
              /\ \A d \in Clients : \A n \in 1 .. Len(queue'[d]) : Good(queue'[d][n])
  <2>1. /\ UNCHANGED <<requests, replies, serving, writing>>
        /\ queue[c] # <<>> /\ queue' = [queue EXCEPT ![c] = Tail(@)]
    BY <1>15 DEF Skip, Receive
  <2>2. \A n \in 1 .. Len(queue'[c]) : Good(queue'[c][n])
    BY <1>1, <1>6, <2>1, Taken
  <2> QED
    BY <1>1, <1>6, <2>1, <2>2
<1>16. ASSUME NEW c \in Clients, Attach(c) \/ Read(c) \/ Leave(c) \/ Client(c)
       PROVE  /\ \A n \in 1 .. Len(requests') : Good(requests'[n])
              /\ \A n \in 1 .. Len(replies') : Good(replies'[n])
              /\ \A m \in serving' \cup writing' : Good(m)
              /\ \A d \in Clients : \A n \in 1 .. Len(queue'[d]) : Good(queue'[d][n])
  <2>1. CASE Attach(c) \/ Leave(c) \/ Call(c) \/ Retry(c) \/ GiveUp(c)
    BY <1>3, <1>4, <1>5, <1>6, <1>12, <2>1
  <2>2. CASE Read(c)
    BY <1>3, <1>5, <1>13, <2>2
  <2>3. CASE Send(c)
    BY <1>4, <1>5, <1>6, <1>14, <2>3
  <2>4. CASE Skip(c) \/ Receive(c)
    BY <1>3, <1>4, <1>5, <1>15, <2>4
  <2> QED
    BY <1>16, <2>1, <2>2, <2>3, <2>4 DEF Client
<1> QED
  BY <1>9, <1>10, <1>11, <1>16 DEF Next

LEMMA ReturnedStep ==
  TypeOK /\ TriesInv /\ SoundInv /\ ReturnedInv /\ [Next]_vars => ReturnedInv'
<1> SUFFICES ASSUME TypeOK, TriesInv, SoundInv, ReturnedInv, [Next]_vars
             PROVE  ReturnedInv'
  OBVIOUS
<1> USE DEF fifos, driver, client
<1>1. CASE \/ Driver \/ Die \/ Tick \/ UNCHANGED vars
           \/ \E c, d \in Clients : ReadTorn(c, d)
  <2>1. UNCHANGED <<op, pc, returned>>
    BY <1>1 DEF Driver, Dispatch, Finish, Flush, Die, Tick, ReadTorn, vars
  <2> QED
    BY <2>1 DEF ReturnedInv
<1>2. ASSUME NEW c \in Clients, Attach(c) \/ Read(c) \/ Leave(c) \/ Send(c) \/ Skip(c)
      PROVE  ReturnedInv'
  <2>1. /\ UNCHANGED <<op, returned>>
        /\ \A d \in Clients : \/ pc'[d] = pc[d]
                              \/ pc'[d] \in {"idle", "gone"}
                              \/ pc[d] = "writing" /\ pc'[d] = "waiting"
    BY <1>2 DEF Attach, Read, TakeLine, Leave, Send, Skip, TypeOK
  <2> QED
    BY <2>1 DEF ReturnedInv
<1>3. ASSUME NEW c \in Clients, Call(c) PROVE ReturnedInv'
  <2>1. /\ UNCHANGED returned /\ op[c] \in Nat
        /\ \A d \in Clients \ {c} : pc'[d] = pc[d] /\ op'[d] = op[d]
        /\ op'[c] = op[c] + 1
    BY <1>3, ChannelOK DEF Call, Begin, TypeOK
  <2>2. \A m \in returned[c] : m.op \in Nat
    BY ChannelOK DEF TypeOK, Messages
  <2> QED
    BY <2>1, <2>2 DEF ReturnedInv
<1>4. ASSUME NEW c \in Clients, Retry(c) PROVE ReturnedInv'
  <2>1. /\ UNCHANGED <<op, returned>> /\ pc[c] = "retry"
        /\ \A d \in Clients \ {c} : pc'[d] = pc[d]
    BY <1>4 DEF Retry, Begin, TypeOK
  <2> QED
    BY <2>1 DEF ReturnedInv
<1>5. ASSUME NEW c \in Clients, NEW m, Return(c, m), UNCHANGED op,
             pc[c] = "waiting", m.from = c, m.op = op[c]
      PROVE  ReturnedInv'
  <2>1. /\ returned'[c] = returned[c] \cup {m} /\ pc'[c] = "idle" /\ op[c] \in Nat
        /\ \A d \in Clients \ {c} : returned'[d] = returned[d] /\ pc'[d] = pc[d]
    BY <1>5, ChannelOK DEF Return, TypeOK
  <2>2. \A n \in returned[c] : n.from = c /\ n.op < op[c] /\ n.op \in Nat
    BY <1>5, ChannelOK DEF ReturnedInv, TypeOK, Messages
  <2> QED
    BY <1>5, <2>1, <2>2 DEF ReturnedInv
<1>6. ASSUME NEW c \in Clients, Receive(c) PROVE ReturnedInv'
  <2>1. CASE DropPrefix(c)
    <3>1. /\ UNCHANGED <<op, returned>> /\ pc[c] = "waiting"
          /\ \A d \in Clients \ {c} : pc'[d] = pc[d]
      BY <1>6, <2>1 DEF Receive, DropPrefix, TypeOK
    <3> QED
      BY <3>1 DEF ReturnedInv
  <2>2. CASE Return(c, Head(queue[c]))
    <3>1. /\ UNCHANGED op /\ pc[c] = "waiting" /\ queue[c] # <<>>
          /\ Mine(c, Head(queue[c]))
      BY <1>6 DEF Receive
    <3>2. Head(queue[c]) \in Messages /\ Sound(Head(queue[c]))
      BY <3>1, Taken DEF TypeOK, SoundInv
    <3>3. Head(queue[c]).from = c /\ Head(queue[c]).op = op[c]
      BY <3>1, <3>2, MineIsMine
    <3> QED
      BY <1>5, <2>2, <3>1, <3>3
  <2> QED
    BY <1>6, <2>1, <2>2 DEF Receive
<1>7. ASSUME NEW c \in Clients, GiveUp(c) PROVE ReturnedInv'
  <2>1. /\ Answer(Request(c), "timeout").from = c
        /\ Answer(Request(c), "timeout").op = op[c]
    BY DEF Answer, Request
  <2> QED
    BY <1>5, <1>7, <2>1 DEF GiveUp, Overdue
<1> QED
  BY <1>1, <1>2, <1>3, <1>4, <1>6, <1>7 DEF Next, Client

\* A call returns the answer to that very call or its own timeout, and returns
\* once, whatever other clients and earlier calls have left in the FIFOs.
THEOREM OwnAnswers == Spec => [](OwnAnswer /\ OneAnswerEach)
<1> DEFINE Inv == TypeOK /\ TriesInv /\ SoundInv /\ ReturnedInv
<1>1. Init => Inv
  <2> SUFFICES ASSUME Init PROVE SoundInv /\ ReturnedInv
    BY InitTyped
  <2> QED
    BY DEF Init, SoundInv, ReturnedInv
<1>2. Inv /\ [Next]_vars => Inv'
  BY TypeStep, SoundStep, ReturnedStep
<1>3. Inv => OwnAnswer /\ OneAnswerEach
  BY DEF ReturnedInv, OwnAnswer, OneAnswerEach
<1> QED
  BY <1>1, <1>2, <1>3, PTL DEF Spec

\* In particular, no call returns twice, or with an answer to another call of its client.
THEOREM AnswersComeOnce == Spec => []OneAnswerEach
BY OwnAnswers, PTL
--------------------------------------------------------------------------------
(***************************************************************************)
(* A call is carried out once.  The client makes it again only under the   *)
(* bare name, so at most one of its two requests finds a handler.          *)
(***************************************************************************)

\* The driver has one name for a method: the qualified one or the bare one.
OneName == \A x, y \in BareNames : x = y

\* A request that the driver has a handler for.
Accepted(m) == m.bare \in BareNames

\* Such a request for the call is on its way, or has been taken.
Spent(c, o) ==
  \/ executed[<<c, o>>] > 0
  \/ \E n \in 1 .. Len(requests) :
       requests[n].from = c /\ requests[n].op = o /\ Accepted(requests[n])

\* The requests on their way are for calls not carried out, and each for its own.
OnceReqs ==
  /\ \A c \in Clients : \A o \in 1 .. MaxOps : executed[<<c, o>>] <= 1
  /\ \A n \in 1 .. Len(requests) :
       Accepted(requests[n]) => executed[<<requests[n].from, requests[n].op>>] = 0
  /\ \A n, k \in 1 .. Len(requests) :
       /\ Accepted(requests[n]) /\ Accepted(requests[k])
       /\ requests[n].from = requests[k].from /\ requests[n].op = requests[k].op
       => n = k

\* A client whose call is spent can send another request for it only under a name
\* that the driver does not know.
OnceAt(c, o) ==
  Spent(c, o) =>
    /\ o <= op[c]
    /\ o = op[c] /\ pc[c] \in {"writing", "retry"} => bare[c] /\ TRUE \notin BareNames
    /\ o = op[c] /\ pc[c] = "waiting" => bare[c] \/ TRUE \notin BareNames

OnceInv == OnceReqs /\ \A c \in Clients : \A o \in 1 .. MaxOps : OnceAt(c, o)

\* A step that neither sends nor dispatches leaves the calls as spent as they were.
LEMMA SpentSame ==
  ASSUME UNCHANGED <<requests, executed>>
  PROVE  /\ OnceReqs => OnceReqs'
         /\ \A c, o : Spent(c, o)' => Spent(c, o)
BY DEF OnceReqs, Spent, Accepted

LEMMA OnceClient ==
  ASSUME TypeOK, TriesInv, OnceInv, NEW c \in Clients, Client(c), ~Send(c)
  PROVE  OnceInv'
<1>1. UNCHANGED <<requests, executed>>
  BY DEF Client, Call, Retry, Begin, Skip, Receive, GiveUp, fifos, driver
<1>2. OnceReqs' /\ \A d, o : Spent(d, o)' => Spent(d, o)
  BY <1>1, SpentSame DEF OnceInv
<1>3. \A d \in Clients \ {c} : op'[d] = op[d] /\ pc'[d] = pc[d] /\ bare'[d] = bare[d]
  BY DEF Client, Call, Retry, Begin, Skip, Receive, DropPrefix, GiveUp, Return, TypeOK
<1>4. ASSUME NEW o \in 1 .. MaxOps, Spent(c, o)
      PROVE  /\ o <= op'[c]
             /\ o = op'[c] /\ pc'[c] \in {"writing", "retry"} =>
                  bare'[c] /\ TRUE \notin BareNames
             /\ o = op'[c] /\ pc'[c] = "waiting" => bare'[c] \/ TRUE \notin BareNames
  <2>0. /\ o <= op[c]
        /\ o = op[c] /\ pc[c] \in {"writing", "retry"} => bare[c] /\ TRUE \notin BareNames
        /\ o = op[c] /\ pc[c] = "waiting" => bare[c] \/ TRUE \notin BareNames
    BY <1>4, Zenon DEF OnceInv, OnceAt
  <2>1. CASE Call(c)
    <3>1. op'[c] = op[c] + 1
      BY <2>1 DEF Call, Begin, TypeOK
    <3>2. op[c] \in Nat /\ o \in Nat
      BY ChannelOK DEF TypeOK
    <3>3. o <= op'[c] /\ o # op'[c]
      BY <2>0, <3>1, <3>2
    <3> QED
      BY <3>3
  <2>2. CASE Retry(c)
    <3>1. op'[c] = op[c] /\ pc[c] = "retry" /\ pc'[c] = "writing" /\ bare' = bare
      BY <2>2 DEF Retry, Begin, TypeOK
    <3> QED
      BY <2>0, <3>1
  <2>3. CASE Skip(c)
    BY <2>0, <2>3 DEF Skip
  <2>4. CASE Receive(c) \/ GiveUp(c)
    <3>1. op' = op /\ pc[c] = "waiting"
      BY <2>4 DEF Receive, GiveUp, Overdue
    <3>2. pc'[c] = "idle" \/ (pc'[c] = "retry" /\ bare'[c] /\ ~bare[c])
      BY <2>4 DEF Receive, DropPrefix, GiveUp, Return, TypeOK
    <3> QED
      BY <2>0, <3>1, <3>2
  <2> QED
    BY <2>1, <2>2, <2>3, <2>4 DEF Client
<1>5. ASSUME NEW d \in Clients, NEW o \in 1 .. MaxOps PROVE OnceAt(d, o)'
  <2>1. CASE d = c
    BY <1>2, <1>4, <2>1 DEF OnceAt
  <2>2. CASE d # c
    BY <1>2, <1>3, <2>2 DEF OnceInv, OnceAt
  <2> QED
    BY <2>1, <2>2
<1> QED
  BY <1>2, <1>5 DEF OnceInv

\* A request goes out under a name the driver knows only if its call is not spent.
LEMMA OnceSend ==
  ASSUME OneName, TypeOK, TriesInv, OnceInv, NEW c \in Clients, Send(c)
  PROVE  OnceInv'
<1> DEFINE len == Len(requests)
           r   == Request(c)
<1>1. /\ op[c] \in 1 .. MaxOps /\ pc[c] = "writing"
      /\ r \in Messages /\ r.from = c /\ r.op = op[c]
  <2>1. op[c] \in 1 .. MaxOps /\ pc[c] = "writing"
    BY ChannelOK DEF Send, TypeOK, TriesInv
  <2>2. r.from = c /\ r.op = op[c]
    BY DEF Request
  <2> QED
    BY <2>1, <2>2, RequestTyped
<1>2. /\ len \in Nat /\ requests \in Seq(Messages)
      /\ requests' = Append(requests, r)
  BY DEF Send, TypeOK
<1>3. /\ Len(requests') = len + 1
      /\ requests'[len + 1] = r
      /\ \A n \in 1 .. len : requests'[n] = requests[n]
  BY <1>1, <1>2
<1>4. /\ UNCHANGED <<executed, op, bare>> /\ pc'[c] = "waiting"
      /\ \A d \in Clients \ {c} : pc'[d] = pc[d]
  BY DEF Send, driver, TypeOK
<1>5. Accepted(r) <=> bare[c] \in BareNames
  BY DEF Accepted, Request
<1>6. Accepted(r) => ~Spent(c, op[c])
  <2> SUFFICES ASSUME Accepted(r), Spent(c, op[c]) PROVE FALSE
    OBVIOUS
  <2>1. bare[c] /\ TRUE \notin BareNames
    BY <1>1 DEF OnceInv, OnceAt
  <2> QED
    BY <1>1, <1>5, <2>1
<1>7. ASSUME NEW d \in Clients, NEW o \in 1 .. MaxOps, Spent(d, o)'
      PROVE  Spent(d, o) \/ (d = c /\ o = op[c] /\ Accepted(r))
  <2>1. CASE executed[<<d, o>>] > 0
    BY <2>1 DEF Spent
  <2>2. ASSUME NEW n \in 1 .. Len(requests'),
               requests'[n].from = d /\ requests'[n].op = o /\ Accepted(requests'[n])
        PROVE  Spent(d, o) \/ (d = c /\ o = op[c] /\ Accepted(r))
    <3>1. CASE n = len + 1
      BY <1>1, <1>3, <2>2, <3>1
    <3>2. CASE n \in 1 .. len
      BY <1>3, <2>2, <3>2 DEF Spent
    <3> QED
      BY <1>2, <1>3, <3>1, <3>2
  <2>3. \/ executed[<<d, o>>] > 0
        \/ \E n \in 1 .. Len(requests') :
             requests'[n].from = d /\ requests'[n].op = o /\ Accepted(requests'[n])
    BY <1>4, <1>7 DEF Spent, Accepted
  <2> QED
    BY <2>1, <2>2, <2>3
<1>8. ASSUME NEW d \in Clients, NEW o \in 1 .. MaxOps PROVE OnceAt(d, o)'
  <2>1. SUFFICES ASSUME Spent(d, o)'
                 PROVE  /\ o <= op[d]
                        /\ o = op[d] /\ pc'[d] \in {"writing", "retry"} =>
                             bare[d] /\ TRUE \notin BareNames
                        /\ o = op[d] /\ pc'[d] = "waiting" =>
                             bare[d] \/ TRUE \notin BareNames
    BY <1>4 DEF OnceAt
  <2>2. CASE d = c /\ o = op[c] /\ Accepted(r)
    <3>1. bare[c] \/ TRUE \notin BareNames
      <4>1. bare[c] \in BOOLEAN
        BY DEF TypeOK
      <4> QED
        BY <1>5, <2>2, <4>1 DEF OneName
    <3>2. o <= op[d] /\ pc'[d] = "waiting"
      BY <1>1, <1>4, <2>2, ChannelOK
    <3> QED
      BY <2>2, <3>1, <3>2
  <2>3. CASE Spent(d, o)
    <3>1. /\ o <= op[d]
          /\ o = op[d] /\ pc[d] \in {"writing", "retry"} =>
               bare[d] /\ TRUE \notin BareNames
          /\ o = op[d] /\ pc[d] = "waiting" => bare[d] \/ TRUE \notin BareNames
      BY <2>3 DEF OnceInv, OnceAt
    <3> QED
      BY <1>1, <1>4, <3>1
  <2> QED
    BY <1>7, <2>1, <2>2, <2>3
<1>9. OnceReqs'
  <2>0. /\ \A n \in 1 .. len : Accepted(requests[n]) =>
             executed[<<requests[n].from, requests[n].op>>] = 0
        /\ \A n, k \in 1 .. len :
             /\ Accepted(requests[n]) /\ Accepted(requests[k])
             /\ requests[n].from = requests[k].from /\ requests[n].op = requests[k].op
             => n = k
        /\ \A d \in Clients : \A o \in 1 .. MaxOps : executed[<<d, o>>] <= 1
    BY DEF OnceInv, OnceReqs
  <2>1. Accepted(r) => executed[<<c, op[c]>>] = 0
    <3>1. executed[<<c, op[c]>>] \in Nat
      BY <1>1 DEF TypeOK
    <3> QED
      BY <1>6, <3>1 DEF Spent
  <2>2. \A n \in 1 .. len :
          Accepted(r) /\ Accepted(requests[n]) =>
            ~(requests[n].from = c /\ requests[n].op = op[c])
    BY <1>6 DEF Spent
  <2> DEFINE req == requests'
  <2>3. \A n \in 1 .. (len + 1) : n \in 1 .. len \/ n = len + 1
    BY <1>2
  <2>4. \A n \in 1 .. (len + 1) : Accepted(req[n]) => executed[<<req[n].from, req[n].op>>] = 0
    BY <1>1, <1>3, <2>0, <2>1, <2>3
  <2>5. \A n, k \in 1 .. (len + 1) :
          /\ Accepted(req[n]) /\ Accepted(req[k])
          /\ req[n].from = req[k].from /\ req[n].op = req[k].op
          => n = k
    BY <1>1, <1>3, <2>0, <2>2, <2>3
  <2> QED
    BY <1>3, <1>4, <2>0, <2>4, <2>5 DEF OnceReqs, Accepted
<1> QED
  BY <1>8, <1>9 DEF OnceInv

\* The handler that starts is the first and the last of its call.
LEMMA OnceDispatch ==
  ASSUME TypeOK, OnceInv, Dispatch
  PROVE  OnceInv'
<1> DEFINE len == Len(requests)
           h   == requests[1]
<1>1. /\ requests \in Seq(Messages) /\ requests # <<>> /\ requests' = Tail(requests)
      /\ UNCHANGED <<op, pc, bare>>
  BY DEF Dispatch, TypeOK, client
<1>2. /\ len \in Nat /\ 1 \in 1 .. len /\ h \in Messages /\ Head(requests) = h
      /\ Len(requests') = len - 1
      /\ \A n \in 1 .. (len - 1) : n + 1 \in 1 .. len /\ requests'[n] = requests[n + 1]
  BY <1>1, Taken
<1>3. h.from \in Clients /\ h.op \in 1 .. MaxOps
  BY <1>2 DEF Messages
<1>4. \/ ~Accepted(h) /\ executed' = executed
      \/ Accepted(h) /\ executed' = [executed EXCEPT ![<<h.from, h.op>>] = @ + 1]
  BY <1>2 DEF Dispatch, Accepted
<1>5. /\ \A n \in 1 .. len : Accepted(requests[n]) =>
           executed[<<requests[n].from, requests[n].op>>] = 0
      /\ \A n, k \in 1 .. len :
           /\ Accepted(requests[n]) /\ Accepted(requests[k])
           /\ requests[n].from = requests[k].from /\ requests[n].op = requests[k].op
           => n = k
      /\ \A c \in Clients : \A o \in 1 .. MaxOps : executed[<<c, o>>] <= 1
  BY DEF OnceInv, OnceReqs
<1>6. ASSUME NEW c \in Clients, NEW o \in 1 .. MaxOps
      PROVE  \/ executed'[<<c, o>>] = executed[<<c, o>>]
             \/ /\ Accepted(h) /\ c = h.from /\ o = h.op
                /\ executed[<<c, o>>] = 0 /\ executed'[<<c, o>>] = 1
  <2>1. executed \in [Clients \X (1 .. MaxOps) -> Nat]
    BY DEF TypeOK
  <2>2. <<c, o>> \in Clients \X (1 .. MaxOps) /\ <<h.from, h.op>> \in Clients \X (1 .. MaxOps)
    BY <1>3
  <2>3. CASE Accepted(h) /\ c = h.from /\ o = h.op
    <3>1. executed'[<<c, o>>] = executed[<<c, o>>] + 1
      BY <1>4, <2>1, <2>2, <2>3
    <3> QED
      BY <1>2, <1>5, <2>3, <3>1
  <2>4. CASE ~(Accepted(h) /\ c = h.from /\ o = h.op)
    <3>1. Accepted(h) => <<c, o>> # <<h.from, h.op>>
      BY <2>4
    <3> QED
      BY <1>4, <2>1, <2>2, <3>1
  <2> QED
    BY <2>3, <2>4
<1>7. ASSUME NEW c \in Clients, NEW o \in 1 .. MaxOps, Spent(c, o)' PROVE Spent(c, o)
  <2>1. CASE executed'[<<c, o>>] > 0
    <3>1. CASE executed[<<c, o>>] > 0
      BY <3>1 DEF Spent
    <3>2. CASE Accepted(h) /\ c = h.from /\ o = h.op
      BY <1>2, <3>2 DEF Spent
    <3> QED
      BY <1>6, <2>1, <3>1, <3>2
  <2>2. ASSUME NEW n \in 1 .. Len(requests'),
               requests'[n].from = c /\ requests'[n].op = o /\ Accepted(requests'[n])
        PROVE  Spent(c, o)
    BY <1>2, <2>2 DEF Spent
  <2>3. \/ executed'[<<c, o>>] > 0
        \/ \E n \in 1 .. Len(requests') :
             requests'[n].from = c /\ requests'[n].op = o /\ Accepted(requests'[n])
    BY <1>7 DEF Spent, Accepted
  <2> QED
    BY <2>1, <2>2, <2>3
<1>8. \A c \in Clients : \A o \in 1 .. MaxOps : OnceAt(c, o)'
  BY <1>1, <1>7 DEF OnceInv, OnceAt
<1>9. OnceReqs'
  <2> DEFINE req == requests'
  <2>1. ASSUME NEW c \in Clients, NEW o \in 1 .. MaxOps PROVE executed'[<<c, o>>] <= 1
    <3>1. executed'[<<c, o>>] = executed[<<c, o>>] \/ executed'[<<c, o>>] = 1
      BY <1>6
    <3>2. executed[<<c, o>>] <= 1 /\ 1 <= 1
      BY <1>5
    <3> QED
      BY <3>1, <3>2
  <2>2. ASSUME NEW n \in 1 .. (len - 1), Accepted(req[n])
        PROVE  executed'[<<req[n].from, req[n].op>>] = 0
    <3>0. n + 1 \in 1 .. len /\ n + 1 # 1 /\ req[n] = requests[n + 1]
      BY <1>2
    <3>1. /\ n + 1 \in 1 .. len /\ n + 1 # 1 /\ req[n] = requests[n + 1]
          /\ req[n].from \in Clients /\ req[n].op \in 1 .. MaxOps
      <4>1. requests[n + 1] \in Messages
        BY <1>1, <3>0
      <4> QED
        BY <3>0, <4>1 DEF Messages
    <3>2. executed[<<req[n].from, req[n].op>>] = 0
      BY <1>5, <2>2, <3>1
    <3>3. ~(Accepted(h) /\ req[n].from = h.from /\ req[n].op = h.op)
      BY <1>2, <1>5, <2>2, <3>1
    <3> QED
      BY <1>6, <3>1, <3>2, <3>3
  <2>3. ASSUME NEW n \in 1 .. (len - 1), NEW k \in 1 .. (len - 1),
               Accepted(req[n]), Accepted(req[k]),
               req[n].from = req[k].from, req[n].op = req[k].op
        PROVE  n = k
    <3>1. n + 1 = k + 1
      BY <1>2, <1>5, <2>3
    <3> QED
      BY <1>2, <3>1
  <2> QED
    BY <1>2, <2>1, <2>2, <2>3 DEF OnceReqs, Accepted
<1> QED
  BY <1>8, <1>9 DEF OnceInv

LEMMA OnceStep ==
  OneName /\ TypeOK /\ TriesInv /\ OnceInv /\ [Next]_vars => OnceInv'
<1> SUFFICES ASSUME OneName, TypeOK, TriesInv, OnceInv, [Next]_vars PROVE OnceInv'
  OBVIOUS
<1>1. CASE Dispatch
  BY <1>1, OnceDispatch
<1>2. ASSUME NEW c \in Clients, Client(c) PROVE OnceInv'
  BY <1>2, OnceClient, OnceSend
<1>3. ASSUME UNCHANGED <<requests, executed, op, bare>>,
             \A c \in Clients : pc'[c] = pc[c] \/ pc'[c] \in {"idle", "gone"}
      PROVE  OnceInv'
  BY <1>3, SpentSame DEF OnceInv, OnceAt
<1>4. CASE (\E m \in serving : Finish(m)) \/ Flush \/ Die \/ Tick \/ UNCHANGED vars
  BY <1>3, <1>4 DEF Finish, Flush, Die, Tick, vars, fifos, driver, client
<1>5. ASSUME NEW c \in Clients, NEW d \in Clients, ReadTorn(c, d) PROVE OnceInv'
  BY <1>3, <1>5 DEF ReadTorn, driver, client
<1>6. ASSUME NEW c \in Clients, Attach(c) \/ Read(c) \/ Leave(c) PROVE OnceInv'
  BY <1>3, <1>6 DEF Attach, Read, TakeLine, Leave, TypeOK, fifos, driver
<1> QED
  BY <1>1, <1>2, <1>4, <1>5, <1>6 DEF Next, Driver

\* With a driver that has one name for a method no call is carried out twice: neither by
\* the second try under the bare name, nor when an error only looks like an unknown
\* method, however many clients share the FIFOs, and whoever gives up, is killed or dies.
THEOREM CallsRunOnce == OneName => (Spec => []ExecutedOnce)
<1> SUFFICES ASSUME OneName PROVE Spec => []ExecutedOnce
  OBVIOUS
<1>1. Init => OnceInv
  BY DEF Init, OnceInv, OnceReqs, OnceAt, Spent
<1>2. TypeOK /\ TriesInv /\ OnceInv /\ [Next]_vars => OnceInv'
  BY OnceStep
<1>3. TypeOK /\ OnceInv => ExecutedOnce
  BY DEF TypeOK, OnceInv, OnceReqs, ExecutedOnce
<1> QED
  BY <1>1, <1>2, <1>3, ChannelTyped, PTL DEF Spec
================================================================================
