---------------------------- MODULE DomDriverProofs ----------------------------
(***************************************************************************)
(* Theorems about DomDriver, for any number of sessions, requests and      *)
(* page errors, any buffer, and all faults, signals and idle timers.       *)
(***************************************************************************)
EXTENDS DomDriver, SequenceTheorems, FiniteSetTheorems, WellFoundedInduction, TLAPS

\* What names are made of; that "snap-" is a text is beyond the provers.
NamePart == STRING \cup {"snap-"} \cup Nat
NameOf   == Seq(NamePart)

HandlersTyped ==
  /\ ask \in [Requests -> Asks \cup {NoAsk}]
  /\ at \in [Requests -> Awaits \cup {"out", "done"}]
  /\ answer \in [Requests -> {"none", "ok", "failed", "error"}]
  /\ noisy \subseteq Requests /\ crowded \subseteq Requests
EntriesTyped ==
  /\ log \in [Sessions -> Seq(1 .. MaxErrors)] /\ taken \in [Requests -> Seq(1 .. MaxErrors)]
  /\ \A s \in Sessions : Len(log[s]) <= Buffered
ErrorsTyped ==
  /\ fresh \in [Sessions -> SUBSET (1 .. MaxErrors)] /\ raised \in [Sessions -> 0 .. MaxErrors]
  /\ lost \in [Sessions -> SUBSET (1 .. MaxErrors)]
WriterTyped ==
  /\ counter \in [Sessions -> 0 .. MaxRequests] /\ unseen \subseteq Requests
  /\ used \in [Sessions -> SUBSET NameOf] /\ name \in [Requests -> NameOf]
  /\ files \in [Sessions -> SUBSET (NameOf \X Requests)]
LifeTyped ==
  /\ registry \subseteq Sessions
  /\ backend \in [Sessions -> {"none", "up", "orphan", "disposing", "disposed"}]
  /\ ready \in [Sessions -> BOOLEAN] /\ closed \in [Sessions -> BOOLEAN]
  /\ timer \in [Sessions -> BOOLEAN] /\ page \in [Sessions -> {"blank", "rendered"}]
ProcessTyped ==
  /\ surface \in [Sessions -> Surfaces] /\ ended \in BOOLEAN /\ awaited \subseteq Sessions
  /\ proc \in {"up", "ending", "stopping", "gone"} /\ overdue \subseteq Sessions
TypeInv == /\ HandlersTyped /\ EntriesTyped /\ ErrorsTyped /\ WriterTyped /\ LifeTyped
           /\ ProcessTyped

\* A request that came is one that was asked, and those that came are the first n; no
\* more snaps than that have been numbered.
Arrived(n) == /\ \A r \in Requests : at[r] = "out" <=> r > n
              /\ \A s \in Sessions : counter[s] <= n
AskedOf(r) == /\ at[r] = "out" => ask[r] = NoAsk /\ name[r] = <<>> /\ taken[r] = <<>>
              /\ at[r] # "out" => ask[r] \in Asks
              /\ at[r] # "done" => answer[r] = "none"

\* The awaits that the handlers of each kind of request come to.
OnWay(do, x) ==
  \/ do = "open" /\ x \in {"launching", "navigating", "gating", "undoing"}
  \/ do = "goto" /\ x \in {"reaching", "regating", "locating"}
  \/ do = "click" /\ x \in {"acting", "locating"}
  \/ do = "eval" /\ x = "acting"
  \/ do \in {"shoot", "snap"} /\ x \in {"shooting", "writing", "draining", "locating"}
  \/ do = "close" /\ x = "closing"

Shape == /\ \E n \in 0 .. MaxRequests : Arrived(n)
         /\ \A r \in Requests : AskedOf(r)
         /\ \A r \in Requests : at[r] \in Awaits => OnWay(ask[r].do, at[r])

\* The names that SnapWriter knows of were given to requests of the session.
UsedInv == \A s \in Sessions : \A n \in used[s] : \E r \in Requests :
             On(r) = s /\ name[r] = n /\ n # <<>>

\* A handler that makes a picture or a snapshot has a name for it.
Naming == \A r \in Requests : at[r] \in {"shooting", "writing", "draining"} => name[r] # <<>>

Base == TypeInv /\ Shape /\ Naming /\ UsedInv

--------------------------------------------------------------------------------
LEMMA Constants ==
  /\ MaxRequests \in Nat /\ MaxErrors \in Nat /\ Buffered \in Nat /\ Buffered >= 1
  /\ Surfaces \subseteq {"web", "tauri"}
  /\ NoAsk \notin Asks
  /\ \A a \in Asks : a.do \in Kinds /\ a.on \in Sessions /\ IsName(a.name)
BY DomOK DEF NoAsk, Kinds

LEMMA NamesTyped == \A a \in Asks : a.name \in NameOf
<1> SUFFICES ASSUME NEW a \in Asks PROVE a.name \in NameOf
  OBVIOUS
<1>1. IsName(a.name)
  BY Constants
<1>2. CASE a.name = <<>>
  BY <1>2, EmptySeq DEF NameOf
<1>3. CASE a.name # <<>>
  <2> DEFINE h == Head(a.name)
             t == Tail(a.name)
  <2>1. h \in STRING /\ t \in Seq(Nat) /\ a.name = <<h>> \o t
    BY <1>1, <1>3 DEF IsName
  <2> HIDE DEF h, t
  <2>2. <<h>> \in Seq(NamePart) /\ t \in Seq(NamePart)
    BY <2>1, SeqMonotonic DEF NamePart
  <2> QED BY <2>1, <2>2, ConcatProperties DEF NameOf
<1> QED BY <1>2, <1>3

LEMMA TypeInvOK == TypeInv => TypeOK
BY DEF TypeInv, TypeOK, HandlersTyped, EntriesTyped, ErrorsTyped, WriterTyped, LifeTyped,
       ProcessTyped

LEMMA InitBase == Init => Base
<1> SUFFICES ASSUME Init PROVE Base
  OBVIOUS
<1>1. HandlersTyped /\ ErrorsTyped
  BY Constants DEF Init, HandlersTyped, ErrorsTyped
<1>8. LifeTyped /\ ProcessTyped
  BY Constants DEF Init, LifeTyped, ProcessTyped
<1>2. EntriesTyped /\ WriterTyped
  BY Constants, EmptySeq DEF Init, EntriesTyped, WriterTyped, NameOf
<1>3. Arrived(0)
  BY Constants DEF Init, Arrived, Requests
<1>4. \A r \in Requests : AskedOf(r)
  BY DEF Init, AskedOf
<1>5. \A r \in Requests : at[r] \notin Awaits
  BY DEF Init, Awaits
<1>6. Shape
  BY <1>3, <1>4, <1>5, Constants DEF Shape
<1>7. Naming /\ UsedInv
  BY DEF Init, Naming, UsedInv
<1> QED BY <1>1, <1>2, <1>6, <1>7, <1>8 DEF Base, TypeInv

--------------------------------------------------------------------------------
(***************************************************************************)
(* Names                                                                   *)
(***************************************************************************)

\* A nonempty set of numbers has a least one.
LEMMA Least ==
  ASSUME NEW T \in SUBSET Nat, T # {}
  PROVE  \E x \in T : \A y \in T : x <= y
<1>1. PICK x \in T : \A y \in T : ~(<<y, x>> \in OpToRel(<, Nat))
  BY NatLessThanWellFounded, WFMin
<1>2. \A y \in T : ~(y < x)
  BY <1>1 DEF OpToRel
<1> QED BY <1>2

\* A request that arrives finds fewer names in use than SnapWriter has numbers to append.
LEMMA SomeNumberIsFree ==
  ASSUME Base, NEW s \in Sessions, NEW n \in NameOf, NEW r \in Requests, at[r] = "out"
  PROVE  \E k \in 2 .. MaxRequests + 1 : Append(n, k) \notin used[s]
<1> SUFFICES ASSUME \A k \in 2 .. MaxRequests + 1 : Append(n, k) \in used[s] PROVE FALSE
  OBVIOUS
<1> DEFINE K == 2 .. MaxRequests + 1
           Q == Requests \ {r}
           f == [k \in K |-> CHOOSE q \in Q : name[q] = Append(n, k)]
<1>1. \A k \in K : f[k] \in Q /\ name[f[k]] = Append(n, k)
  <2> SUFFICES ASSUME NEW k \in K PROVE \E q \in Q : name[q] = Append(n, k)
    OBVIOUS
  <2>1. PICK q \in Requests : name[q] = Append(n, k) /\ name[q] # <<>>
    BY DEF Base, UsedInv
  <2>2. name[r] = <<>>
    BY DEF Base, Shape, AskedOf
  <2> QED BY <2>1, <2>2
<1>2. f \in [K -> Q]
  BY <1>1
<1>3. IsFiniteSet(K) /\ Cardinality(K) = MaxRequests
  <2>1. 2 \in Int /\ MaxRequests + 1 \in Int /\ MaxRequests >= 1
    BY Constants DEF Requests
  <2> QED BY <2>1, FS_Interval, Constants
<1>4. IsFiniteSet(Q) /\ Cardinality(Q) = MaxRequests - 1
  <2>1. IsFiniteSet(Requests) /\ Cardinality(Requests) = MaxRequests
    <3>1. 1 \in Int /\ MaxRequests \in Int /\ MaxRequests >= 1
      BY Constants DEF Requests
    <3> QED BY <3>1, FS_Interval DEF Requests
  <2> QED BY <2>1, FS_RemoveElement
<1>5. \E j, k \in K : j # k /\ f[j] = f[k]
  <2> HIDE DEF f, K, Q
  <2>1. Cardinality(Q) < Cardinality(K)
    BY <1>3, <1>4, Constants
  <2> QED BY <2>1, <1>2, <1>3, <1>4, FS_PigeonHole
<1>6. PICK j \in K, k \in K : j # k /\ f[j] = f[k]
  BY <1>5
<1>7. Append(n, j) = Append(n, k)
  BY <1>6, <1>1
<1>8. j \in NamePart /\ k \in NamePart
  BY Constants DEF NamePart
<1> HIDE DEF f, K, Q
<1> QED BY <1>6, <1>7, <1>8, AppendInjective DEF NameOf

\* What nextName gives is a name that SnapWriter does not know of, or a number.
LEMMA NameIsFree ==
  ASSUME Base, NEW a \in Asks, NEW r \in Requests, at[r] = "out",
         a.name # <<>>
  PROVE  LET n == NameFor(a.on, a.name)
         IN  n \in NameOf /\ n # <<>> /\ n \notin used[a.on] /\ Head(n) = Head(a.name)
<1> DEFINE s == a.on
           n == a.name
           Good(k) == /\ Append(n, k) \notin used[s]
                      /\ \A j \in 2 .. k - 1 : Append(n, j) \in used[s]
<1>1. s \in Sessions /\ n \in NameOf
  BY Constants, NamesTyped
<1>2. CASE n \notin used[s]
  BY <1>1, <1>2 DEF NameFor
<1>3. CASE n \in used[s]
  <2>1. \E k \in 2 .. MaxRequests + 1 : Good(k)
    <3> DEFINE T == {k \in 2 .. MaxRequests + 1 : Append(n, k) \notin used[s]}
    <3>1. T # {}
      BY <1>1, SomeNumberIsFree
    <3>2. PICK x \in T : \A y \in T : x <= y
      <4>1. T \in SUBSET Nat
        BY Constants
      <4> HIDE DEF T
      <4> QED BY <3>1, <4>1, Least
    <3>3. \A j \in 2 .. x - 1 : Append(n, j) \in used[s]
      BY <3>2, Constants
    <3> QED BY <3>2, <3>3
  <2> DEFINE k == CHOOSE k \in 2 .. MaxRequests + 1 : Good(k)
  <2>2. k \in 2 .. MaxRequests + 1 /\ Good(k)
    BY <2>1
  <2>3. NameFor(s, n) = Append(n, k)
    BY <1>3 DEF NameFor
  <2>4. k \in NamePart
    BY <2>2, Constants DEF NamePart
  <2>5. Append(n, k) \notin used[s]
    BY <2>2
  <2> HIDE DEF k
  <2>6. Append(n, k) \in NameOf /\ Append(n, k) # <<>>
    BY <1>1, <2>4, AppendProperties DEF NameOf
  <2>7. Head(Append(n, k)) = Head(n)
    BY <1>1, HeadTailAppend DEF NameOf
  <2> QED BY <2>3, <2>5, <2>6, <2>7
<1> QED BY <1>2, <1>3

LEMMA PairIsSeq ==
  ASSUME NEW S, NEW a \in S, NEW b \in S
  PROVE  <<a, b>> \in Seq(S) /\ <<a, b>> # <<>> /\ Head(<<a, b>>) = a
OBVIOUS

LEMMA NumberIsName ==
  ASSUME NEW s \in Sessions, counter[s] \in Nat
  PROVE  NameFor(s, <<>>) \in NameOf /\ NameFor(s, <<>>) # <<>>
<1>1. NameFor(s, <<>>) = <<"snap-", counter[s] + 1>>
  BY DEF NameFor
<1>2. counter[s] + 1 \in NamePart
  BY DEF NamePart
<1>3. "snap-" \in NamePart
  BY DEF NamePart
<1> QED BY <1>1, <1>2, <1>3, PairIsSeq DEF NameOf

--------------------------------------------------------------------------------
(***************************************************************************)
(* How the handlers move                                                   *)
(***************************************************************************)

\* The handler of r comes to the await x, or is done and answers y.
Comes(r, do, x) ==
  /\ at' = [at EXCEPT ![r] = x]
  /\ x \in Awaits /\ OnWay(do, x) /\ answer' = answer
Ends(r, y) ==
  /\ at' = [at EXCEPT ![r] = "done"]
  /\ y \in {"ok", "failed", "error"} /\ answer' = [answer EXCEPT ![r] = y]

\* No handler comes to take a picture but the one that arrives for it, and none to
\* write or to drain but one that has taken it.  Some awaits are the last.
Follows(w, x) == /\ x # "shooting" /\ w \notin {"undoing", "locating", "closing"}
                 /\ x \in {"writing", "draining"} => w \in {"shooting", "writing"}

Moves(r) ==
  /\ at[r] \in Awaits
  /\ \/ \E x \in Awaits : Comes(r, ask[r].do, x) /\ Follows(at[r], x)
     \/ \E y \in {"ok", "failed", "error"} : Ends(r, y)
  /\ UNCHANGED <<ask, name, noisy, crowded, counter, process>>

\* The request r is dispatched and asks a.
Named(r, a) ==
  /\ name' = [name EXCEPT ![r] = NameFor(a.on, a.name)]
  /\ counter' = IF a.name = <<>> THEN [counter EXCEPT ![a.on] = @ + 1] ELSE counter
Enters(r, a) ==
  \/ /\ \E x \in {"launching", "reaching", "acting", "closing"} : Comes(r, a.do, x)
     /\ UNCHANGED <<name, counter>>
  \/ Comes(r, a.do, "shooting") /\ Named(r, a)
  \/ /\ \E y \in {"ok", "failed", "error"} : Ends(r, y) /\ (y = "ok" => a.do = "close")
     /\ UNCHANGED <<name, counter>>
Arrives(r, a) ==
  /\ a \in Asks /\ ask' = [ask EXCEPT ![r] = a] /\ Enters(r, a)
  /\ UNCHANGED <<taken, noisy, events, used, files, unseen, surface, ended, proc, awaited>>

LEMMA IsNext ==
  ASSUME Base, NEW r \in Requests, r = Cardinality(Came) + 1
  PROVE  /\ \A q \in Requests : at[q] = "out" <=> q >= r
         /\ \A s \in Sessions : counter[s] < r
<1>1. PICK n \in 0 .. MaxRequests : Arrived(n)
  BY DEF Base, Shape
<1>2. Came = 1 .. n
  BY <1>1, Constants DEF Came, Arrived, Requests
<1>3. Cardinality(Came) = n
  <2>1. 1 \in Int /\ n \in Int /\ n >= 0
    BY Constants
  <2>2. Cardinality(1 .. n) = IF 1 > n THEN 0 ELSE n - 1 + 1
    BY <2>1, FS_Interval
  <2> QED BY <2>1, <2>2, <1>2
<1>4. r = n + 1 /\ n \in Nat
  BY <1>3, Constants
<1> QED BY <1>1, <1>4, Constants DEF Arrived, Requests, Base, TypeInv, WriterTyped

LEMMA StartMoves ==
  ASSUME Base, NEW r \in Requests, NEW a \in Asks, at[r] = "out",
         a.do \notin {"open", "close"}, Start(r, a)
  PROVE  Enters(r, a)
<1> DEFINE s == a.on
<1>k. a.do \in Kinds
  BY Constants
<1>1. CASE s \notin registry \/ closed[s]
  BY <1>1 DEF Start, Ends, Enters
<1>2. CASE ~(s \notin registry \/ closed[s]) /\ ~ready[s]
  <2>1. /\ at' = [at EXCEPT ![r] = "done"] /\ UNCHANGED <<name, counter>>
        /\ answer' = [answer EXCEPT ![r] = IF a.do \in {"snap", "eval"} THEN "error" ELSE "failed"]
    BY <1>2 DEF Start
  <2>2. CASE a.do \in {"snap", "eval"}
    BY <2>1, <2>2 DEF Ends, Enters
  <2>3. CASE a.do \notin {"snap", "eval"}
    BY <2>1, <2>3 DEF Ends, Enters
  <2> QED BY <2>2, <2>3
<1>3. CASE ~(s \notin registry \/ closed[s]) /\ ready[s]
  <2>1. /\ at' = [at EXCEPT ![r] = FirstAwait(a)] /\ answer' = answer
        /\ IF a.do \in {"snap", "shoot"}
             THEN /\ name' = [name EXCEPT ![r] = NameFor(s, a.name)]
                  /\ counter' = IF a.name = <<>> THEN [counter EXCEPT ![s] = @ + 1] ELSE counter
             ELSE UNCHANGED <<name, counter>>
    BY <1>3 DEF Start
  <2>2. CASE a.do = "goto"
    BY <2>1, <2>2 DEF FirstAwait, Comes, OnWay, Awaits, Enters, Named
  <2>3. CASE a.do \in {"snap", "shoot"}
    BY <2>1, <2>3 DEF FirstAwait, Comes, OnWay, Awaits, Enters, Named
  <2>4. CASE a.do \in {"click", "eval"}
    BY <2>1, <2>4 DEF FirstAwait, Comes, OnWay, Awaits, Enters, Named
  <2> QED BY <1>k, <2>2, <2>3, <2>4 DEF Kinds
<1> QED BY <1>1, <1>2, <1>3

LEMMA ArriveMoves ==
  ASSUME Base, NEW r \in Requests, Arrive(r)
  PROVE  /\ at[r] = "out"
         /\ \A q \in Requests : at[q] = "out" <=> q >= r
         /\ \A s \in Sessions : counter[s] < r
         /\ \E a \in Asks : Arrives(r, a)
<1>1. r = Cardinality(Came) + 1
  BY DEF Arrive
<1>2. /\ \A q \in Requests : at[q] = "out" <=> q >= r
      /\ \A s \in Sessions : counter[s] < r
  BY <1>1, IsNext
<1>3. at[r] = "out"
  BY <1>2, Constants DEF Requests
<1>4. PICK a \in Asks :
        /\ ask' = [ask EXCEPT ![r] = a]
        /\ \/ /\ a.do = "open" /\ at' = [at EXCEPT ![r] = "launching"]
              /\ UNCHANGED <<answer, life, name, counter>>
           \/ a.do = "close" /\ StartClose(r, a.on)
           \/ a.do \notin {"open", "close"} /\ Start(r, a)
  BY DEF Arrive
<1>5. UNCHANGED <<taken, noisy, events, used, files, unseen, surface, ended, proc, awaited>>
  BY DEF Arrive
<1>6. CASE /\ a.do = "open" /\ at' = [at EXCEPT ![r] = "launching"]
           /\ UNCHANGED <<answer, life, name, counter>>
  BY <1>2, <1>3, <1>4, <1>5, <1>6 DEF Arrives, Comes, OnWay, Awaits, Enters
<1>7. CASE a.do = "close" /\ StartClose(r, a.on)
  <2>3. UNCHANGED <<name, counter>>
    BY <1>7 DEF StartClose
  <2>4. Enters(r, a)
    <3>1. CASE a.on \in registry /\ ~closed[a.on]
      BY <1>7, <2>3, <3>1 DEF StartClose, Comes, OnWay, Awaits, Enters
    <3>2. CASE ~(a.on \in registry /\ ~closed[a.on])
      BY <1>7, <2>3, <3>2 DEF StartClose, Ends, Enters
    <3> QED BY <3>1, <3>2
  <2>5. ask' = [ask EXCEPT ![r] = a]
    BY <1>4
  <2> QED BY <1>2, <1>3, <1>5, <2>4, <2>5 DEF Arrives
<1>8. CASE a.do \notin {"open", "close"} /\ Start(r, a)
  <2>1. ask' = [ask EXCEPT ![r] = a]
    BY <1>4
  <2>2. Enters(r, a)
    BY <1>3, <1>8, StartMoves
  <2> QED BY <1>2, <1>3, <1>5, <2>1, <2>2 DEF Arrives
<1> QED BY <1>4, <1>6, <1>7, <1>8

LEMMA GoMoves ==
  ASSUME NEW r, NEW x \in Awaits, OnWay(ask[r].do, x), Follows(at[r], x), Go(r, x)
  PROVE  /\ \E z \in Awaits : Comes(r, ask[r].do, z) /\ Follows(at[r], z)
         /\ UNCHANGED <<ask, name>>
BY DEF Go, Comes

LEMMA FinishMoves ==
  ASSUME NEW r, NEW y \in {"ok", "failed", "error"}, Finish(r, y)
  PROVE  /\ \E z \in {"ok", "failed", "error"} : Ends(r, z)
         /\ UNCHANGED <<ask, name>>
BY DEF Finish, Ends

LEMMA ResumeMoves == ASSUME Base, NEW r \in Requests, Resume(r) PROVE Moves(r)
<1>w. at[r] \in Awaits => OnWay(ask[r].do, at[r])
  BY DEF Base, Shape
<1>1. CASE Launched(r)
  <2>1. /\ at[r] = "launching" /\ at[r] \in Awaits
        /\ UNCHANGED <<noisy, crowded, counter, process>>
    BY <1>1 DEF Launched, writer, Awaits
  <2>2. \/ Go(r, "navigating")
        \/ Finish(r, "error")
    BY <1>1 DEF Launched
  <2>3. CASE Go(r, "navigating")
    BY <1>w, <2>1, <2>3, GoMoves DEF Moves, Awaits, OnWay, Follows
  <2>4. CASE Finish(r, "error")
    BY <1>w, <2>1, <2>4, FinishMoves DEF Moves
  <2> QED BY <2>2, <2>3, <2>4
<1>2. CASE Navigated(r)
  <2>1. /\ at[r] = "navigating" /\ at[r] \in Awaits
        /\ UNCHANGED <<noisy, crowded, counter, process>>
    BY <1>2 DEF Navigated, writer, Awaits
  <2>2. \/ Go(r, "gating")
        \/ Go(r, "undoing")
    BY <1>2 DEF Navigated, Undo
  <2>3. CASE Go(r, "gating")
    BY <1>w, <2>1, <2>3, GoMoves DEF Moves, Awaits, OnWay, Follows
  <2>4. CASE Go(r, "undoing")
    BY <1>w, <2>1, <2>4, GoMoves DEF Moves, Awaits, OnWay, Follows
  <2> QED BY <2>2, <2>3, <2>4
<1>3. CASE Gated(r)
  <2>1. /\ at[r] = "gating" /\ at[r] \in Awaits
        /\ UNCHANGED <<noisy, crowded, counter, process>>
    BY <1>3 DEF Gated, writer, Awaits
  <2>2. \/ Finish(r, "ok")
        \/ Go(r, "undoing")
    BY <1>3 DEF Gated, Undo
  <2>3. CASE Finish(r, "ok")
    BY <1>w, <2>1, <2>3, FinishMoves DEF Moves
  <2>4. CASE Go(r, "undoing")
    BY <1>w, <2>1, <2>4, GoMoves DEF Moves, Awaits, OnWay, Follows
  <2> QED BY <2>2, <2>3, <2>4
<1>4. CASE Undone(r)
  <2>1. /\ at[r] = "undoing" /\ at[r] \in Awaits
        /\ UNCHANGED <<noisy, crowded, counter, process>>
    BY <1>4 DEF Undone, writer, Awaits
  <2>2. \/ Finish(r, "error")
    BY <1>4 DEF Undone
  <2>3. CASE Finish(r, "error")
    BY <1>w, <2>1, <2>3, FinishMoves DEF Moves
  <2> QED BY <2>2, <2>3
<1>5. CASE Acted(r)
  <2>1. /\ at[r] = "acting" /\ at[r] \in Awaits
        /\ UNCHANGED <<noisy, crowded, counter, process>>
    BY <1>5 DEF Acted, writer, Awaits
  <2>2. \/ IsStep(r) /\ Go(r, "locating")
        \/ Finish(r, "ok")
        \/ Finish(r, "failed")
        \/ Finish(r, "error")
    BY <1>5 DEF Acted, Check, Fault
  <2>3. CASE IsStep(r) /\ Go(r, "locating")
    BY <1>w, <2>1, <2>3, GoMoves DEF Moves, Awaits, OnWay, Follows, IsStep
  <2>4. CASE Finish(r, "ok")
    BY <1>w, <2>1, <2>4, FinishMoves DEF Moves
  <2>5. CASE Finish(r, "failed")
    BY <1>w, <2>1, <2>5, FinishMoves DEF Moves
  <2>6. CASE Finish(r, "error")
    BY <1>w, <2>1, <2>6, FinishMoves DEF Moves
  <2> QED BY <2>2, <2>3, <2>4, <2>5, <2>6
<1>6. CASE Reached(r)
  <2>1. /\ at[r] = "reaching" /\ at[r] \in Awaits
        /\ UNCHANGED <<noisy, crowded, counter, process>>
    BY <1>6 DEF Reached, writer, Awaits
  <2>2. \/ Go(r, "regating")
        \/ Finish(r, "failed")
    BY <1>6 DEF Reached
  <2>3. CASE Go(r, "regating")
    BY <1>w, <2>1, <2>3, GoMoves DEF Moves, Awaits, OnWay, Follows
  <2>4. CASE Finish(r, "failed")
    BY <1>w, <2>1, <2>4, FinishMoves DEF Moves
  <2> QED BY <2>2, <2>3, <2>4
<1>7. CASE Regated(r)
  <2>1. /\ at[r] = "regating" /\ at[r] \in Awaits
        /\ UNCHANGED <<noisy, crowded, counter, process>>
    BY <1>7 DEF Regated, writer, Awaits
  <2>2. \/ Go(r, "locating")
        \/ Finish(r, "failed")
    BY <1>7 DEF Regated
  <2>3. CASE Go(r, "locating")
    BY <1>w, <2>1, <2>3, GoMoves DEF Moves, Awaits, OnWay, Follows
  <2>4. CASE Finish(r, "failed")
    BY <1>w, <2>1, <2>4, FinishMoves DEF Moves
  <2> QED BY <2>2, <2>3, <2>4
<1>8. CASE Shot(r)
  <2>1. /\ at[r] = "shooting" /\ at[r] \in Awaits
        /\ UNCHANGED <<noisy, crowded, counter, process>>
    BY <1>8 DEF Shot, writer, Awaits
  <2>2. \/ Go(r, "writing")
        \/ Finish(r, "failed")
        \/ Finish(r, "error")
    BY <1>8 DEF Shot, Fault
  <2>3. CASE Go(r, "writing")
    BY <1>w, <2>1, <2>3, GoMoves DEF Moves, Awaits, OnWay, Follows
  <2>4. CASE Finish(r, "failed")
    BY <1>w, <2>1, <2>4, FinishMoves DEF Moves
  <2>5. CASE Finish(r, "error")
    BY <1>w, <2>1, <2>5, FinishMoves DEF Moves
  <2> QED BY <2>2, <2>3, <2>4, <2>5
<1>9. CASE Wrote(r)
  <2>1. /\ at[r] = "writing" /\ at[r] \in Awaits
        /\ UNCHANGED <<noisy, crowded, counter, process>>
    BY <1>9 DEF Wrote, writer, Awaits
  <2>2. \/ Go(r, "draining")
        \/ Go(r, "locating")
        \/ Finish(r, "failed")
        \/ Finish(r, "error")
    BY <1>9 DEF Wrote, Fault, EndSnap, Check, IsStep
  <2>3. CASE Go(r, "draining")
    BY <1>w, <2>1, <2>3, GoMoves DEF Moves, Awaits, OnWay, Follows
  <2>4. CASE Go(r, "locating")
    BY <1>w, <2>1, <2>4, GoMoves DEF Moves, Awaits, OnWay, Follows
  <2>5. CASE Finish(r, "failed")
    BY <1>w, <2>1, <2>5, FinishMoves DEF Moves
  <2>6. CASE Finish(r, "error")
    BY <1>w, <2>1, <2>6, FinishMoves DEF Moves
  <2> QED BY <2>2, <2>3, <2>4, <2>5, <2>6
<1>10. CASE Drained(r)
  <2>1. /\ at[r] = "draining" /\ at[r] \in Awaits
        /\ UNCHANGED <<noisy, crowded, counter, process>>
    BY <1>10 DEF Drained, writer, Awaits
  <2>2. \/ Go(r, "locating")
        \/ Finish(r, "failed")
    BY <1>10 DEF Drained, EndSnap, Check
  <2>3. CASE Go(r, "locating")
    BY <1>w, <2>1, <2>3, GoMoves DEF Moves, Awaits, OnWay, Follows
  <2>4. CASE Finish(r, "failed")
    BY <1>w, <2>1, <2>4, FinishMoves DEF Moves
  <2> QED BY <2>2, <2>3, <2>4
<1>11. CASE Located(r)
  <2>1. /\ at[r] = "locating" /\ at[r] \in Awaits
        /\ UNCHANGED <<noisy, crowded, counter, process>>
    BY <1>11 DEF Located, writer, Awaits
  <2>2. \/ Finish(r, "ok")
    BY <1>11 DEF Located
  <2>3. CASE Finish(r, "ok")
    BY <1>w, <2>1, <2>3, FinishMoves DEF Moves
  <2> QED BY <2>2, <2>3
<1>12. CASE Closed(r)
  <2>1. /\ at[r] = "closing" /\ at[r] \in Awaits
        /\ UNCHANGED <<noisy, crowded, counter, process>>
    BY <1>12 DEF Closed, writer, Awaits
  <2>2. \/ Finish(r, "ok")
    BY <1>12 DEF Closed
  <2>3. CASE Finish(r, "ok")
    BY <1>w, <2>1, <2>3, FinishMoves DEF Moves
  <2> QED BY <2>2, <2>3
<1> QED BY <1>1, <1>2, <1>3, <1>4, <1>5, <1>6, <1>7, <1>8, <1>9, <1>10, <1>11, <1>12 DEF Resume

\* What the rest of the process does is none of the requests' business.
Aside ==
  /\ UNCHANGED <<ask, at, answer, taken, crowded, name, writer, surface>>
  /\ (\E s \in Sessions : Raise(s)) \/ UNCHANGED <<noisy, events>>

LEMMA OthersAside ==
  ASSUME \/ \E s \in Sessions : Expire(s) \/ Disposed(s) \/ Raise(s)
         \/ InputEnds \/ AllServed \/ Signal \/ Exit \/ UNCHANGED vars
  PROVE  Aside
<1>1. ASSUME NEW s \in Sessions, Expire(s) PROVE Aside
  BY <1>1 DEF Expire, Aside, handlers, process
<1>2. ASSUME NEW s \in Sessions, Disposed(s) PROVE Aside
  BY <1>2 DEF Disposed, Aside, handlers, process
<1>3. ASSUME NEW s \in Sessions, Raise(s) PROVE Aside
  <2>1. UNCHANGED <<ask, at, answer, taken, crowded, name, writer, surface>>
    BY <1>3 DEF Raise, process
  <2> QED BY <1>3, <2>1 DEF Aside
<1>4. CASE InputEnds \/ AllServed \/ Signal \/ Exit \/ UNCHANGED vars
  BY <1>4 DEF InputEnds, AllServed, Signal, Exit, vars, Aside, handlers, process
<1> QED BY <1>1, <1>2, <1>3, <1>4

--------------------------------------------------------------------------------
(***************************************************************************)
(* Types                                                                   *)
(***************************************************************************)
Others == \/ \E s \in Sessions : Expire(s) \/ Disposed(s) \/ Raise(s)
          \/ InputEnds \/ AllServed \/ Signal \/ Exit \/ UNCHANGED vars

LEMMA Steps ==
  [Next]_vars <=> (\E r \in Requests : Arrive(r)) \/ (\E r \in Requests : Resume(r)) \/ Others
BY DEF Next, Others

LEMMA HandlersStay ==
  ASSUME Base, [Next]_vars PROVE HandlersTyped'
<1>0. HandlersTyped
  BY DEF Base, TypeInv
<1>1. ASSUME NEW r \in Requests, Arrive(r) PROVE HandlersTyped'
  <2>1. PICK a \in Asks : Arrives(r, a)
    BY <1>1, ArriveMoves
  <2>2. crowded' \subseteq Requests
    BY <1>0, <1>1 DEF Arrive, HandlersTyped, Pending
  <2>3. ask' \in [Requests -> Asks \cup {NoAsk}] /\ noisy' = noisy
    BY <1>0, <2>1 DEF Arrives, HandlersTyped
  <2>4. /\ at' \in [Requests -> Awaits \cup {"out", "done"}]
        /\ answer' \in [Requests -> {"none", "ok", "failed", "error"}]
    <3>1. CASE \E x \in Awaits : Comes(r, a.do, x)
      BY <1>0, <3>1 DEF HandlersTyped, Comes
    <3>2. CASE \E y \in {"ok", "failed", "error"} : Ends(r, y)
      BY <1>0, <3>2 DEF HandlersTyped, Ends
    <3>3. {"launching", "reaching", "acting", "closing", "shooting"} \subseteq Awaits
      BY DEF Awaits
    <3> QED BY <2>1, <3>1, <3>2, <3>3 DEF Arrives, Enters
  <2> QED BY <1>0, <2>2, <2>3, <2>4 DEF HandlersTyped
<1>2. ASSUME NEW r \in Requests, Resume(r) PROVE HandlersTyped'
  <2>1. Moves(r)
    BY <1>2, ResumeMoves
  <2>2. UNCHANGED <<ask, noisy, crowded>>
    BY <2>1 DEF Moves
  <2>3. /\ at' \in [Requests -> Awaits \cup {"out", "done"}]
        /\ answer' \in [Requests -> {"none", "ok", "failed", "error"}]
    <3>1. CASE \E x \in Awaits : Comes(r, ask[r].do, x)
      BY <1>0, <3>1 DEF HandlersTyped, Comes
    <3>2. CASE \E y \in {"ok", "failed", "error"} : Ends(r, y)
      BY <1>0, <3>2 DEF HandlersTyped, Ends
    <3> QED BY <2>1, <3>1, <3>2 DEF Moves
  <2> QED BY <1>0, <2>2, <2>3 DEF HandlersTyped
<1>3. ASSUME Others PROVE HandlersTyped'
  <2>1. UNCHANGED <<ask, at, answer, crowded>>
    BY <1>3, OthersAside DEF Others, Aside
  <2>2. noisy' \subseteq Requests
    <3>1. CASE \E s \in Sessions : Raise(s)
      BY <1>0, <3>1 DEF Raise, Pending, HandlersTyped
    <3>2. CASE noisy' = noisy
      BY <1>0, <3>2 DEF HandlersTyped
    <3> QED BY <1>3, <3>1, <3>2, OthersAside DEF Others, Aside
  <2> QED BY <1>0, <2>1, <2>2 DEF HandlersTyped
<1> QED BY <1>1, <1>2, <1>3, Steps

\* What a handler does with the entries of its page: nothing, or it takes them, or it
\* navigates and the page of a Tauri window takes them along.
Gives(r) == /\ at[r] \in {"navigating", "gating", "writing", "draining"}
            /\ at'[r] \in {"undoing", "locating", "done"}
            /\ taken' = [taken EXCEPT ![r] = log[On(r)]]
            /\ log' = [log EXCEPT ![On(r)] = <<>>] /\ lost' = lost
Drops(s) == /\ lost' = [lost EXCEPT ![s] = @ \cup ToSet(log[s])]
            /\ log' = [log EXCEPT ![s] = <<>>] /\ taken' = taken
Handles(r) == /\ raised' = raised
              /\ Gives(r) \/ Drops(On(r)) \/ UNCHANGED <<log, taken, lost>>

LEMMA OnSession == ASSUME Base, NEW r \in Requests, at[r] # "out" PROVE On(r) \in Sessions
<1>1. ask[r] \in Asks
  BY DEF Base, Shape, AskedOf
<1> QED BY <1>1, Constants DEF On

LEMMA NavigateDrops == ASSUME NEW s, Navigate(s), taken' = taken
                       PROVE Drops(s) \/ UNCHANGED <<log, taken, lost>>
BY DEF Navigate, Drops

LEMMA SnapHandles ==
  ASSUME NEW r \in Requests, EndSnap(r), raised' = raised, at[r] \in {"writing", "draining"},
         at'[r] \in {"locating", "done"}
  PROVE  Handles(r)
<1>1. CASE UNCHANGED <<taken, log, lost>>
  BY <1>1 DEF Handles
<1>2. CASE DrainInVain(On(r)) /\ taken' = taken
  BY <1>2 DEF DrainInVain, Handles, Drops
<1>3. CASE Drain(r) /\ lost' = lost
  BY <1>3 DEF Drain, Handles, Gives
<1> QED BY <1>1, <1>2, <1>3 DEF EndSnap

LEMMA ResumeHandles == ASSUME Base, NEW r \in Requests, Resume(r) PROVE Handles(r)
<1>a. at \in [Requests -> Awaits \cup {"out", "done"}]
  BY DEF Base, TypeInv, HandlersTyped
<1>1. CASE Launched(r)
  BY <1>1 DEF Launched, Handles, events
<1>2. CASE Navigated(r)
  <2>1. raised' = raised
    BY <1>2 DEF Navigated
  <2>2. CASE Navigate(On(r)) /\ taken' = taken
    BY <2>1, <2>2, NavigateDrops DEF Handles
  <2>3. CASE Undo(r) /\ lost' = lost /\ at[r] = "navigating"
    BY <1>a, <2>1, <2>3 DEF Undo, Go, Drain, Handles, Gives
  <2> QED BY <1>2, <2>2, <2>3 DEF Navigated
<1>3. CASE Gated(r)
  <2>1. raised' = raised /\ lost' = lost /\ at[r] = "gating"
    BY <1>3 DEF Gated
  <2>2. CASE UNCHANGED <<taken, log>>
    BY <2>1, <2>2 DEF Handles
  <2>3. CASE Undo(r)
    BY <1>a, <2>1, <2>3 DEF Undo, Go, Drain, Handles, Gives
  <2> QED BY <1>3, <2>2, <2>3 DEF Gated
<1>4. CASE Undone(r)
  BY <1>4 DEF Undone, Handles, events
<1>5. CASE Acted(r)
  BY <1>5 DEF Acted, Handles
<1>6. CASE Reached(r)
  <2>1. raised' = raised /\ taken' = taken
    BY <1>6 DEF Reached
  <2>2. Navigate(On(r)) \/ UNCHANGED <<lost, log>>
    BY <1>6 DEF Reached
  <2> QED BY <2>1, <2>2, NavigateDrops DEF Handles
<1>7. CASE Regated(r)
  BY <1>7 DEF Regated, Handles
<1>8. CASE Shot(r)
  BY <1>8 DEF Shot, Handles, events
<1>9. CASE Wrote(r)
  <2>1. raised' = raised /\ at[r] = "writing"
    BY <1>9 DEF Wrote
  <2>2. CASE UNCHANGED <<taken, log, lost>>
    BY <2>1, <2>2 DEF Handles
  <2>3. CASE EndSnap(r)
    <3>1. at'[r] \in {"locating", "done"}
      BY <1>a, <2>3 DEF EndSnap, Check, Go, Finish
    <3> QED BY <2>1, <2>3, <3>1, SnapHandles
  <2> QED BY <1>9, <2>2, <2>3 DEF Wrote
<1>10. CASE Drained(r)
  <2>1. raised' = raised /\ at[r] = "draining" /\ EndSnap(r)
    BY <1>10 DEF Drained
  <2>2. at'[r] \in {"locating", "done"}
    BY <1>a, <2>1 DEF EndSnap, Check, Go, Finish
  <2> QED BY <2>1, <2>2, SnapHandles
<1>11. CASE Located(r)
  BY <1>11 DEF Located, Handles, events
<1>12. CASE Closed(r)
  BY <1>12 DEF Closed, Handles, events
<1> QED BY <1>1, <1>2, <1>3, <1>4, <1>5, <1>6, <1>7, <1>8, <1>9, <1>10, <1>11, <1>12
        DEF Resume

LEMMA ToSetIn ==
  ASSUME NEW S, NEW q \in Seq(S)
  PROVE  /\ ToSet(q) \subseteq S
         /\ \A e : e \in ToSet(q) <=> \E i \in 1 .. Len(q) : e = q[i]
<1>1. DOMAIN q = 1 .. Len(q) /\ \A i \in 1 .. Len(q) : q[i] \in S
  BY LenProperties, ElementOfSeq
<1> QED BY <1>1 DEF ToSet

LEMMA PushTyped ==
  ASSUME NEW S, NEW q \in Seq(S), NEW e \in S, Len(q) <= Buffered
  PROVE  Push(q, e) \in Seq(S) /\ Len(Push(q, e)) <= Buffered
<1>1. CASE Len(q) >= Buffered
  <2>1. q # <<>>
    BY <1>1, EmptySeq, Constants
  <2>2. Tail(q) \in Seq(S) /\ Len(Tail(q)) = Len(q) - 1 /\ Len(q) \in Nat
    BY <2>1, HeadTailProperties, LenProperties
  <2>3. Push(q, e) = Append(Tail(q), e)
    BY <1>1 DEF Push
  <2> QED BY <2>2, <2>3, AppendProperties, Constants
<1>2. CASE ~(Len(q) >= Buffered)
  <2>1. Push(q, e) = Append(q, e) /\ Len(q) \in Nat
    BY <1>2, LenProperties DEF Push
  <2> QED BY <1>2, <2>1, AppendProperties, Constants
<1> QED BY <1>1, <1>2

LEMMA EntriesStay ==
  ASSUME Base, [Next]_vars PROVE EntriesTyped'
<1>0. EntriesTyped
  BY DEF Base, TypeInv
<1>1. ASSUME NEW r \in Requests, Arrive(r) PROVE EntriesTyped'
  <2>1. UNCHANGED <<log, taken>>
    BY <1>1 DEF Arrive, events
  <2> QED BY <1>0, <2>1 DEF EntriesTyped
<1>2. ASSUME NEW r \in Requests, Resume(r) PROVE EntriesTyped'
  <2>0. Moves(r) /\ Handles(r)
    BY <1>2, ResumeMoves, ResumeHandles
  <2>1. On(r) \in Sessions
    BY <2>0, OnSession DEF Moves, Awaits
  <2>2. CASE Gives(r)
    <3>1. taken' \in [Requests -> Seq(1 .. MaxErrors)]
      BY <1>0, <2>1, <2>2 DEF Gives, EntriesTyped
    <3>2. /\ log' \in [Sessions -> Seq(1 .. MaxErrors)]
          /\ \A s \in Sessions : Len(log'[s]) <= Buffered
      BY <1>0, <2>1, <2>2, EmptySeq, Constants DEF Gives, EntriesTyped
    <3> QED BY <3>1, <3>2 DEF EntriesTyped
  <2>3. CASE Drops(On(r))
    <3>1. taken' = taken
      BY <2>3 DEF Drops
    <3>2. /\ log' \in [Sessions -> Seq(1 .. MaxErrors)]
          /\ \A s \in Sessions : Len(log'[s]) <= Buffered
      BY <1>0, <2>1, <2>3, EmptySeq, Constants DEF Drops, EntriesTyped
    <3> QED BY <1>0, <3>1, <3>2 DEF EntriesTyped
  <2>4. CASE UNCHANGED <<log, taken, lost>>
    BY <1>0, <2>4 DEF EntriesTyped
  <2> QED BY <2>0, <2>2, <2>3, <2>4 DEF Handles
<1>3. ASSUME Others PROVE EntriesTyped'
  <2>1. CASE UNCHANGED <<log, taken>>
    BY <1>0, <2>1 DEF EntriesTyped
  <2>2. ASSUME NEW s \in Sessions, Raise(s) PROVE EntriesTyped'
    <3>1. /\ raised[s] + 1 \in 1 .. MaxErrors
          /\ log' = [log EXCEPT ![s] = Push(log[s], raised[s] + 1)] /\ taken' = taken
      BY <2>2, Constants DEF Raise, Base, TypeInv, ErrorsTyped
    <3>2. log[s] \in Seq(1 .. MaxErrors) /\ Len(log[s]) <= Buffered
      BY <1>0 DEF EntriesTyped
    <3>3. /\ Push(log[s], raised[s] + 1) \in Seq(1 .. MaxErrors)
          /\ Len(Push(log[s], raised[s] + 1)) <= Buffered
      BY <3>1, <3>2, PushTyped
    <3> QED BY <1>0, <3>1, <3>3 DEF EntriesTyped
  <2>3. taken' = taken /\ ((\E s \in Sessions : Raise(s)) \/ log' = log)
    BY <1>3, OthersAside DEF Others, Aside, events
  <2> QED BY <2>1, <2>2, <2>3
<1> QED BY <1>1, <1>2, <1>3, Steps

LEMMA FreshTyped ==
  ASSUME Base, NEW r \in Requests, Resume(r)
  PROVE  fresh' \in [Sessions -> SUBSET (1 .. MaxErrors)]
<1>0. fresh \in [Sessions -> SUBSET (1 .. MaxErrors)]
  BY DEF Base, TypeInv, ErrorsTyped
<1>1. On(r) \in Sessions
  BY ResumeMoves, OnSession DEF Moves, Awaits
<1>2. Known(r) \subseteq 1 .. MaxErrors
  <2>1. ToSet(log[On(r)]) \subseteq 1 .. MaxErrors
    BY <1>1, ToSetIn DEF Base, TypeInv, EntriesTyped
  <2> QED BY <1>0, <1>1, <2>1 DEF Known
<1>3. fresh' = fresh \/ fresh' = [fresh EXCEPT ![On(r)] = {}]
        \/ fresh' = [fresh EXCEPT ![On(r)] = Known(r)]
  BY DEF Resume, Launched, Navigated, Gated, Undone, Acted, Reached, Regated, Shot, Wrote,
         Drained, Located, Closed, EndSnap, Check, Rendered, events
<1> QED BY <1>0, <1>1, <1>2, <1>3

LEMMA ErrorsStay ==
  ASSUME Base, [Next]_vars PROVE ErrorsTyped'
<1>0. ErrorsTyped /\ EntriesTyped
  BY DEF Base, TypeInv
<1>s. \A s \in Sessions : ToSet(log[s]) \subseteq 1 .. MaxErrors
  BY <1>0, ToSetIn DEF EntriesTyped
<1>1. ASSUME NEW r \in Requests, Arrive(r) PROVE ErrorsTyped'
  <2>1. UNCHANGED <<fresh, raised, lost>>
    BY <1>1 DEF Arrive, events
  <2> QED BY <1>0, <2>1 DEF ErrorsTyped
<1>2. ASSUME NEW r \in Requests, Resume(r) PROVE ErrorsTyped'
  <2>0. Moves(r) /\ Handles(r)
    BY <1>2, ResumeMoves, ResumeHandles
  <2>1. On(r) \in Sessions
    BY <2>0, OnSession DEF Moves, Awaits
  <2>2. fresh' \in [Sessions -> SUBSET (1 .. MaxErrors)]
    BY <1>2, FreshTyped
  <2>3. lost' \in [Sessions -> SUBSET (1 .. MaxErrors)]
    <3>1. CASE lost' = lost
      BY <1>0, <3>1 DEF ErrorsTyped
    <3>2. CASE Drops(On(r))
      BY <1>0, <1>s, <2>1, <3>2 DEF ErrorsTyped, Drops
    <3> QED BY <2>0, <3>1, <3>2 DEF Handles, Gives
  <2> QED BY <1>0, <2>0, <2>2, <2>3 DEF ErrorsTyped, Handles
<1>3. ASSUME Others PROVE ErrorsTyped'
  <2>1. CASE UNCHANGED events
    BY <1>0, <2>1 DEF ErrorsTyped, events
  <2>2. ASSUME NEW s \in Sessions, Raise(s) PROVE ErrorsTyped'
    <3> DEFINE e == raised[s] + 1
    <3>1. e \in 1 .. MaxErrors
      BY <1>0, <2>2, Constants DEF Raise, ErrorsTyped
    <3>2. /\ raised' = [raised EXCEPT ![s] = e]
          /\ lost' = [lost EXCEPT ![s] = lost[s] \cup (ToSet(log[s]) \ ToSet(Push(log[s], e)))]
          /\ fresh' = [fresh EXCEPT ![s] = fresh[s] \cup {e}] \/ fresh' = fresh
      BY <2>2 DEF Raise
    <3> HIDE DEF e
    <3>3. raised' \in [Sessions -> 0 .. MaxErrors]
      BY <1>0, <3>1, <3>2, Constants DEF ErrorsTyped
    <3>4. fresh' \in [Sessions -> SUBSET (1 .. MaxErrors)]
      BY <1>0, <3>1, <3>2 DEF ErrorsTyped
    <3>5. lost' \in [Sessions -> SUBSET (1 .. MaxErrors)]
      BY <1>0, <1>s, <3>2 DEF ErrorsTyped
    <3> QED BY <3>3, <3>4, <3>5 DEF ErrorsTyped
  <2> QED BY <1>3, <2>1, <2>2, OthersAside DEF Others, Aside
<1> QED BY <1>1, <1>2, <1>3, Steps

\* A request that gets a name gets one that is typed, and not yet known.
LEMMA NameTyped ==
  ASSUME Base, NEW r \in Requests, at[r] = "out", NEW a \in Asks
  PROVE  NameFor(a.on, a.name) \in NameOf /\ NameFor(a.on, a.name) # <<>>
<1>1. CASE a.name = <<>>
  <2>1. a.on \in Sessions
    BY Constants
  <2>2. counter[a.on] \in Nat
    BY <2>1, Constants DEF Base, TypeInv, WriterTyped
  <2> QED BY <1>1, <2>1, <2>2, NumberIsName
<1>2. CASE a.name # <<>>
  BY <1>2, NameIsFree
<1> QED BY <1>1, <1>2

LEMMA CounterStays ==
  ASSUME Base, NEW r \in Requests, Arrive(r)
  PROVE  /\ counter' \in [Sessions -> 0 .. MaxRequests]
         /\ \A s \in Sessions : counter'[s] <= r
<1>1. PICK a \in Asks : Arrives(r, a)
  BY ArriveMoves
<1>2. a.on \in Sessions /\ \A s \in Sessions : counter[s] < r
  BY ArriveMoves, Constants
<1>3. counter \in [Sessions -> 0 .. MaxRequests] /\ r \in 1 .. MaxRequests
  BY DEF Base, TypeInv, WriterTyped, Requests
<1>4. counter' = counter \/ counter' = [counter EXCEPT ![a.on] = counter[a.on] + 1]
  BY <1>1 DEF Arrives, Enters, Named
<1> QED BY <1>2, <1>3, <1>4, Constants

LEMMA WriterStays ==
  ASSUME Base, [Next]_vars PROVE WriterTyped'
<1>0. WriterTyped
  BY DEF Base, TypeInv
<1>1. ASSUME NEW r \in Requests, Arrive(r) PROVE WriterTyped'
  <2>1. PICK a \in Asks : Arrives(r, a)
    BY <1>1, ArriveMoves
  <2>2. at[r] = "out"
    BY <1>1, ArriveMoves
  <2>3. counter' \in [Sessions -> 0 .. MaxRequests]
    BY <1>1, CounterStays
  <2>4. name' \in [Requests -> NameOf]
    <3>1. NameFor(a.on, a.name) \in NameOf
      BY <2>2, NameTyped
    <3>2. name' = name \/ name' = [name EXCEPT ![r] = NameFor(a.on, a.name)]
      BY <2>1 DEF Arrives, Enters, Named
    <3> QED BY <1>0, <3>1, <3>2 DEF WriterTyped
  <2>5. UNCHANGED <<used, files, unseen>>
    BY <2>1 DEF Arrives
  <2> QED BY <1>0, <2>3, <2>4, <2>5 DEF WriterTyped
<1>2. ASSUME NEW r \in Requests, Resume(r) PROVE WriterTyped'
  <2>1. UNCHANGED <<name, counter>> /\ On(r) \in Sessions
    BY <1>2, ResumeMoves, OnSession DEF Moves, Awaits
  <2>2. used' = used \/ used' = [used EXCEPT ![On(r)] = @ \cup {name[r]}]
    BY <1>2 DEF Resume, Launched, Navigated, Gated, Undone, Acted, Reached, Regated, Shot, Wrote,
                Drained, Located, Closed, writer
  <2>3. files' = files \/ files' = [files EXCEPT ![On(r)] = @ \cup {<<name[r], r>>}]
    BY <1>2 DEF Resume, Launched, Navigated, Gated, Undone, Acted, Reached, Regated, Shot, Wrote,
                Drained, Located, Closed, writer
  <2>4. unseen' = unseen \/ unseen' = unseen \cup {r}
    BY <1>2 DEF Resume, Launched, Navigated, Gated, Undone, Acted, Reached, Regated, Shot, Wrote,
                Drained, Located, Closed, writer
  <2>5. name[r] \in NameOf
    BY <1>0 DEF WriterTyped
  <2>6. used' \in [Sessions -> SUBSET NameOf]
    BY <1>0, <2>1, <2>2, <2>5 DEF WriterTyped
  <2>7. files' \in [Sessions -> SUBSET (NameOf \X Requests)]
    <3>1. <<name[r], r>> \in NameOf \X Requests
      BY <2>5
    <3> QED BY <1>0, <2>1, <2>3, <3>1 DEF WriterTyped
  <2> QED BY <1>0, <2>1, <2>4, <2>6, <2>7 DEF WriterTyped
<1>3. ASSUME Others PROVE WriterTyped'
  BY <1>0, <1>3, OthersAside DEF Others, Aside, writer, WriterTyped
<1> QED BY <1>1, <1>2, <1>3, Steps

LEMMA DropTyped ==
  ASSUME LifeTyped, NEW s \in Sessions, Drop(s) PROVE LifeTyped'
BY DEF Drop, LifeTyped

LEMMA CloseAllTyped ==
  ASSUME LifeTyped, CloseAll PROVE LifeTyped' /\ awaited' \subseteq Sessions
<1>1. awaited' \subseteq Sessions /\ registry' = {} /\ UNCHANGED <<ready, page>>
  BY DEF CloseAll, LifeTyped
<1>2. backend' \in [Sessions -> {"none", "up", "orphan", "disposing", "disposed"}]
  BY DEF CloseAll, LifeTyped
<1>3. closed' \in [Sessions -> BOOLEAN] /\ timer' \in [Sessions -> BOOLEAN]
  BY DEF CloseAll, LifeTyped
<1> QED BY <1>1, <1>2, <1>3 DEF LifeTyped

LEMMA StartTyped ==
  ASSUME LifeTyped, NEW r, NEW a \in Asks, Start(r, a) PROVE LifeTyped'
<1>1. a.on \in Sessions
  BY Constants
<1>2. UNCHANGED <<registry, backend, ready, closed, page>> /\ (Touch(a.on) \/ timer' = timer)
  BY DEF Start, life
<1> QED BY <1>1, <1>2 DEF Touch, LifeTyped

LEMMA LifeStays ==
  ASSUME Base, [Next]_vars PROVE LifeTyped'
<1>0. LifeTyped
  BY DEF Base, TypeInv
<1>1. ASSUME NEW r \in Requests, Arrive(r) PROVE LifeTyped'
  <2>1. PICK a \in Asks : UNCHANGED life \/ StartClose(r, a.on) \/ Start(r, a)
    BY <1>1 DEF Arrive
  <2>2. CASE UNCHANGED life
    BY <1>0, <2>2 DEF life, LifeTyped
  <2>3. CASE StartClose(r, a.on)
    BY <1>0, <2>3, DropTyped, Constants DEF StartClose
  <2>4. CASE Start(r, a)
    BY <1>0, <2>4, StartTyped
  <2> QED BY <2>1, <2>2, <2>3, <2>4
<1>2. ASSUME NEW r \in Requests, Resume(r) PROVE LifeTyped'
  <2>0. On(r) \in Sessions
    BY <1>2, ResumeMoves, OnSession DEF Moves, Awaits
  <2>1. CASE Launched(r)
    <3>1. CASE Touch(On(r)) /\ backend' = [backend EXCEPT ![On(r)] = "up"]
      BY <1>0, <2>0, <2>1, <3>1 DEF Launched, Touch, LifeTyped
    <3>2. CASE timer' = timer /\ backend' \in {backend, [backend EXCEPT ![On(r)] = "orphan"]}
      <4>1. backend' = backend \/ backend' = [backend EXCEPT ![On(r)] = "orphan"]
        BY <3>2
      <4>2. UNCHANGED <<registry, ready, closed, timer, page>>
        BY <2>1, <3>2 DEF Launched
      <4> QED BY <1>0, <2>0, <4>1, <4>2 DEF LifeTyped
    <3> QED BY <2>1, <3>1, <3>2 DEF Launched
  <2>2. CASE Navigated(r)
    BY <1>0, <2>0, <2>2 DEF Navigated, Navigate, Undo, LifeTyped
  <2>3. CASE Gated(r)
    BY <1>0, <2>0, <2>3 DEF Gated, Rendered, Undo, LifeTyped
  <2>4. CASE Undone(r)
    BY <1>0, <2>0, <2>4 DEF Undone, LifeTyped
  <2>5. CASE Reached(r)
    BY <1>0, <2>0, <2>5 DEF Reached, Navigate, LifeTyped
  <2>6. CASE Regated(r)
    BY <1>0, <2>0, <2>6 DEF Regated, Rendered, LifeTyped
  <2>7. CASE Acted(r) \/ Shot(r) \/ Wrote(r) \/ Drained(r) \/ Located(r) \/ Closed(r)
    BY <1>0, <2>7 DEF Acted, Shot, Wrote, Drained, Located, Closed, life, LifeTyped
  <2> QED BY <1>2, <2>1, <2>2, <2>3, <2>4, <2>5, <2>6, <2>7 DEF Resume
<1>3. ASSUME Others PROVE LifeTyped'
  <2>1. ASSUME NEW s \in Sessions, Expire(s) PROVE LifeTyped'
    <3>1. CASE Drop(s)
      BY <1>0, <3>1, DropTyped
    <3>2. CASE /\ timer' = [timer EXCEPT ![s] = FALSE]
               /\ UNCHANGED <<registry, backend, ready, closed, page>>
      BY <1>0, <3>2 DEF LifeTyped
    <3> QED BY <2>1, <3>1, <3>2 DEF Expire
  <2>2. ASSUME NEW s \in Sessions, Disposed(s) PROVE LifeTyped'
    BY <1>0, <2>2 DEF Disposed, LifeTyped
  <2>3. CASE UNCHANGED life
    BY <1>0, <2>3 DEF life, LifeTyped
  <2>4. CASE CloseAll
    BY <1>0, <2>4, CloseAllTyped
  <2> QED BY <1>3, <2>1, <2>2, <2>3, <2>4 DEF Others, Raise, InputEnds, AllServed, Signal, Exit,
                                               vars
<1> QED BY <1>1, <1>2, <1>3, Steps

LEMMA ProcessStays ==
  ASSUME Base, [Next]_vars PROVE ProcessTyped'
<1>0. ProcessTyped /\ LifeTyped
  BY DEF Base, TypeInv
<1>1. CASE UNCHANGED process
  BY <1>0, <1>1 DEF process, ProcessTyped
<1>2. CASE AllServed \/ Signal
  <2>1. awaited' \subseteq Sessions
    BY <1>0, <1>2, CloseAllTyped DEF AllServed, Signal
  <2> QED BY <1>0, <1>2, <2>1 DEF AllServed, Signal, ProcessTyped
<1>3. CASE InputEnds \/ Exit
  BY <1>0, <1>3 DEF InputEnds, Exit, ProcessTyped
<1>4. ASSUME NEW r \in Requests, Arrive(r) PROVE ProcessTyped'
  BY <1>0, <1>4 DEF Arrive, ProcessTyped
<1>5. ASSUME NEW r \in Requests, Resume(r) PROVE UNCHANGED process
  BY <1>5, ResumeMoves DEF Moves
<1>6. ASSUME NEW s \in Sessions, Expire(s) \/ Disposed(s) \/ Raise(s) PROVE ProcessTyped'
  <2>1. CASE Expire(s)
    BY <1>0, <2>1 DEF Expire, ProcessTyped
  <2>2. CASE Disposed(s) \/ Raise(s)
    BY <1>1, <2>2 DEF Disposed, Raise
  <2> QED BY <1>6, <2>1, <2>2
<1> QED BY <1>1, <1>2, <1>3, <1>4, <1>5, <1>6, Steps DEF Others, vars

--------------------------------------------------------------------------------
(***************************************************************************)
(* The shape of the requests                                               *)
(***************************************************************************)

\* The handler of r moves to x; if it is done, it has an answer.
To(r, x) == /\ at' = [at EXCEPT ![r] = x] /\ x \in Awaits \cup {"done"}
            /\ \A q \in Requests : q # r => answer'[q] = answer[q]
            /\ x # "done" => answer' = answer

LEMMA MovesTo ==
  ASSUME Base, NEW r \in Requests
  PROVE  /\ Moves(r) => \E x \in Awaits \cup {"done"} :
                          To(r, x) /\ (x \in Awaits => OnWay(ask[r].do, x))
         /\ \A a \in Asks : Arrives(r, a) => \E x \in Awaits \cup {"done"} :
                                               To(r, x) /\ (x \in Awaits => OnWay(a.do, x))
<1>1. ASSUME NEW do, NEW x \in Awaits, Comes(r, do, x) PROVE To(r, x) /\ OnWay(do, x)
  BY <1>1 DEF Comes, To, Awaits
<1>2. ASSUME NEW y, Ends(r, y) PROVE To(r, "done") /\ "done" \notin Awaits
  BY <1>2 DEF Ends, To, Awaits, Base, TypeInv, HandlersTyped
<1>3. {"launching", "reaching", "acting", "shooting", "closing"} \subseteq Awaits
  BY DEF Awaits
<1>4. ASSUME Moves(r)
      PROVE  \E x \in Awaits \cup {"done"} : To(r, x) /\ (x \in Awaits => OnWay(ask[r].do, x))
  BY <1>1, <1>2, <1>4 DEF Moves
<1>5. ASSUME NEW a \in Asks, Arrives(r, a)
      PROVE  \E x \in Awaits \cup {"done"} : To(r, x) /\ (x \in Awaits => OnWay(a.do, x))
  BY <1>1, <1>2, <1>3, <1>5 DEF Arrives, Enters
<1> QED BY <1>4, <1>5

LEMMA ShapeStays ==
  ASSUME Base, [Next]_vars PROVE Shape'
<1>0. Shape /\ HandlersTyped /\ WriterTyped /\ EntriesTyped
  BY DEF Base, TypeInv
<1>1. ASSUME NEW r \in Requests, Arrive(r) PROVE Shape'
  <2>1. PICK a \in Asks : Arrives(r, a)
    BY <1>1, ArriveMoves
  <2>2. PICK x \in Awaits \cup {"done"} : To(r, x) /\ (x \in Awaits => OnWay(a.do, x))
    BY <2>1, MovesTo
  <2>3. at[r] = "out" /\ \A q \in Requests : at[q] = "out" <=> q >= r
    BY <1>1, ArriveMoves
  <2>4. x # "out" /\ at'[r] = x /\ \A q \in Requests : q # r => at'[q] = at[q]
    BY <1>0, <2>2 DEF To, HandlersTyped, Awaits
  <2>5. Arrived(r)'
    <3>1. \A q \in Requests : at'[q] = "out" <=> q > r
      BY <2>3, <2>4 DEF Requests
    <3>2. \A s \in Sessions : counter'[s] <= r
      BY <1>1, CounterStays
    <3> QED BY <3>1, <3>2 DEF Arrived
  <2>6. ASSUME NEW q \in Requests PROVE AskedOf(q)'
    <3>1. ask' = [ask EXCEPT ![r] = a] /\ taken' = taken
      BY <2>1 DEF Arrives
    <3>2. \A p \in Requests : p # r => name'[p] = name[p]
      BY <1>0, <2>1 DEF Arrives, Enters, Named, WriterTyped
    <3>3. CASE q = r
      <4>1. at'[q] # "out" /\ ask'[q] \in Asks
        BY <1>0, <2>4, <3>1, <3>3 DEF HandlersTyped
      <4>2. at'[q] # "done" => answer'[q] = "none"
        BY <1>0, <2>2, <2>3, <2>4, <3>3 DEF To, Shape, AskedOf
      <4> QED BY <4>1, <4>2 DEF AskedOf
    <3>4. CASE q # r
      <4>1. /\ at'[q] = at[q] /\ ask'[q] = ask[q] /\ name'[q] = name[q]
            /\ taken'[q] = taken[q] /\ answer'[q] = answer[q]
        BY <1>0, <2>2, <2>4, <3>1, <3>2, <3>4 DEF HandlersTyped, To
      <4> QED BY <1>0, <4>1 DEF Shape, AskedOf
    <3> QED BY <3>3, <3>4
  <2>7. ASSUME NEW q \in Requests, at'[q] \in Awaits PROVE OnWay(ask'[q].do, at'[q])
    <3>1. ask' = [ask EXCEPT ![r] = a]
      BY <2>1 DEF Arrives
    <3>2. CASE q = r
      <4>1. ask'[q] = a /\ at'[q] = x
        BY <1>0, <2>4, <3>1, <3>2 DEF HandlersTyped
      <4> QED BY <2>2, <2>7, <4>1
    <3>3. CASE q # r
      <4>1. ask'[q] = ask[q] /\ at'[q] = at[q]
        BY <1>0, <2>4, <3>1, <3>3 DEF HandlersTyped
      <4> QED BY <1>0, <2>7, <4>1 DEF Shape
    <3> QED BY <3>2, <3>3
  <2>8. r \in 0 .. MaxRequests
    BY DEF Requests
  <2> QED BY <2>5, <2>6, <2>7, <2>8 DEF Shape
<1>2. ASSUME NEW r \in Requests, Resume(r) PROVE Shape'
  <2>1. Moves(r) /\ Handles(r)
    BY <1>2, ResumeMoves, ResumeHandles
  <2>2. PICK x \in Awaits \cup {"done"} : To(r, x) /\ (x \in Awaits => OnWay(ask[r].do, x))
    BY <2>1, MovesTo
  <2>3. UNCHANGED <<ask, name, counter>> /\ at[r] \in Awaits
    BY <2>1 DEF Moves
  <2>4. x # "out" /\ at[r] # "out" /\ at'[r] = x /\ \A q \in Requests : q # r => at'[q] = at[q]
    BY <1>0, <2>2, <2>3 DEF To, HandlersTyped, Awaits
  <2>5. \E n \in 0 .. MaxRequests : Arrived(n)'
    <3>1. PICK n \in 0 .. MaxRequests : Arrived(n)
      BY <1>0 DEF Shape
    <3>2. \A q \in Requests : at'[q] = "out" <=> at[q] = "out"
      BY <2>4
    <3> QED BY <2>3, <3>1, <3>2 DEF Arrived
  <2>6. ASSUME NEW q \in Requests PROVE AskedOf(q)'
    <3>1. CASE q = r
      <4>1. at'[q] # "out" /\ ask'[q] \in Asks
        BY <1>0, <2>3, <2>4, <3>1 DEF Shape, AskedOf
      <4>2. at[r] # "done"
        BY <2>3 DEF Awaits
      <4>3. at'[q] # "done" => answer'[q] = "none"
        BY <1>0, <2>2, <2>4, <3>1, <4>2 DEF To, Shape, AskedOf
      <4> QED BY <4>1, <4>3 DEF AskedOf
    <3>2. CASE q # r
      <4>1. taken'[q] = taken[q]
        BY <1>0, <2>1, <3>2 DEF Handles, Gives, Drops, EntriesTyped
      <4>2. at'[q] = at[q] /\ answer'[q] = answer[q]
        BY <2>2, <2>4, <3>2 DEF To
      <4> QED BY <1>0, <2>3, <4>1, <4>2 DEF Shape, AskedOf
    <3> QED BY <3>1, <3>2
  <2>7. ASSUME NEW q \in Requests, at'[q] \in Awaits PROVE OnWay(ask'[q].do, at'[q])
    BY <1>0, <2>2, <2>3, <2>4, <2>7 DEF Shape
  <2> QED BY <2>5, <2>6, <2>7 DEF Shape
<1>3. ASSUME Others PROVE Shape'
  <2>1. UNCHANGED <<ask, at, answer, taken, name, counter>>
    BY <1>3, OthersAside DEF Others, Aside, writer
  <2>2. \E n \in 0 .. MaxRequests : Arrived(n)'
    BY <1>0, <2>1 DEF Shape, Arrived
  <2>3. \A q \in Requests : AskedOf(q)'
    BY <1>0, <2>1 DEF Shape, AskedOf
  <2>4. \A q \in Requests : at'[q] \in Awaits => OnWay(ask'[q].do, at'[q])
    BY <1>0, <2>1 DEF Shape
  <2> QED BY <2>2, <2>3, <2>4 DEF Shape
<1> QED BY <1>1, <1>2, <1>3, Steps

\* Where a name comes from: a request that has arrived, and keeps it.
LEMMA NamesStay ==
  ASSUME Base, [Next]_vars, NEW q \in Requests, at[q] # "out"
  PROVE  ask'[q] = ask[q] /\ name'[q] = name[q] /\ at'[q] # "out"
<1>0. HandlersTyped /\ WriterTyped
  BY DEF Base, TypeInv
<1>1. ASSUME NEW r \in Requests, Arrive(r)
      PROVE  ask'[q] = ask[q] /\ name'[q] = name[q] /\ at'[q] # "out"
  <2>1. PICK a \in Asks : Arrives(r, a)
    BY <1>1, ArriveMoves
  <2>2. at[r] = "out"
    BY <1>1, ArriveMoves
  <2>3. PICK x \in Awaits \cup {"done"} : To(r, x)
    BY <2>1, MovesTo
  <2> QED BY <1>0, <2>1, <2>2, <2>3 DEF Arrives, Enters, Named, To, HandlersTyped, WriterTyped
<1>2. ASSUME NEW r \in Requests, Resume(r)
      PROVE  ask'[q] = ask[q] /\ name'[q] = name[q] /\ at'[q] # "out"
  <2>1. Moves(r)
    BY <1>2, ResumeMoves
  <2>2. PICK x \in Awaits \cup {"done"} : To(r, x)
    BY <2>1, MovesTo
  <2>3. x # "out"
    BY DEF Awaits
  <2>4. at'[q] # "out"
    BY <1>0, <2>2, <2>3 DEF To, HandlersTyped
  <2> QED BY <2>1, <2>4 DEF Moves
<1>3. ASSUME Others PROVE ask'[q] = ask[q] /\ name'[q] = name[q] /\ at'[q] # "out"
  BY <1>3, OthersAside DEF Others, Aside
<1> QED BY <1>1, <1>2, <1>3, Steps

\* What a step does to one request: it arrives, its handler moves, or nothing.
LEMMA Fates ==
  ASSUME Base, [Next]_vars, NEW q \in Requests
  PROVE  \/ Arrive(q) /\ at[q] = "out" /\ \E a \in Asks : Arrives(q, a)
         \/ Resume(q) /\ Moves(q) /\ Handles(q)
         \/ UNCHANGED <<ask[q], at[q], answer[q], taken[q], name[q]>>
<1>0. HandlersTyped /\ WriterTyped /\ EntriesTyped
  BY DEF Base, TypeInv
<1>1. ASSUME NEW r \in Requests, Arrive(r), r # q
      PROVE  UNCHANGED <<ask[q], at[q], answer[q], taken[q], name[q]>>
  <2>1. PICK a \in Asks : Arrives(r, a)
    BY <1>1, ArriveMoves
  <2>2. PICK x \in Awaits \cup {"done"} : To(r, x)
    BY <2>1, MovesTo
  <2> QED BY <1>0, <1>1, <2>1, <2>2 DEF Arrives, Enters, Named, To, HandlersTyped, WriterTyped
<1>2. ASSUME NEW r \in Requests, Resume(r), r # q
      PROVE  UNCHANGED <<ask[q], at[q], answer[q], taken[q], name[q]>>
  <2>1. Moves(r) /\ Handles(r)
    BY <1>2, ResumeMoves, ResumeHandles
  <2>2. PICK x \in Awaits \cup {"done"} : To(r, x)
    BY <2>1, MovesTo
  <2>3. UNCHANGED <<at[q], answer[q]>>
    BY <1>0, <1>2, <2>2 DEF To, HandlersTyped
  <2>4. UNCHANGED taken[q]
    BY <1>0, <1>2, <2>1 DEF Handles, Gives, Drops, EntriesTyped
  <2> QED BY <2>1, <2>3, <2>4 DEF Moves
<1>3. ASSUME Others PROVE UNCHANGED <<ask[q], at[q], answer[q], taken[q], name[q]>>
  BY <1>3, OthersAside DEF Others, Aside
<1>4. ASSUME Arrive(q) PROVE at[q] = "out" /\ \E a \in Asks : Arrives(q, a)
  BY <1>4, ArriveMoves
<1>5. ASSUME Resume(q) PROVE Moves(q) /\ Handles(q)
  BY <1>5, ResumeMoves, ResumeHandles
<1> QED BY <1>1, <1>2, <1>3, <1>4, <1>5, Steps

LEMMA NamingStays ==
  ASSUME Base, [Next]_vars PROVE Naming'
<1> SUFFICES ASSUME NEW q \in Requests, at'[q] \in {"shooting", "writing", "draining"}
             PROVE  name'[q] # <<>>
  BY DEF Naming
<1>0. HandlersTyped /\ WriterTyped /\ Naming
  BY DEF Base, TypeInv
<1>1. CASE at[q] = "out" /\ \E a \in Asks : Arrives(q, a)
  <2>1. PICK a \in Asks : Arrives(q, a)
    BY <1>1
  <2>2. NameFor(a.on, a.name) # <<>>
    BY <1>1, NameTyped
  <2>3. Named(q, a)
    <3>1. ASSUME NEW x \in {"launching", "reaching", "acting", "closing"}, Comes(q, a.do, x)
          PROVE  FALSE
      BY <1>0, <3>1 DEF Comes, HandlersTyped
    <3>2. ASSUME NEW y, Ends(q, y) PROVE FALSE
      BY <1>0, <3>2 DEF Ends, HandlersTyped
    <3> QED BY <2>1, <3>1, <3>2 DEF Arrives, Enters
  <2> QED BY <1>0, <2>2, <2>3 DEF Named, WriterTyped
<1>2. CASE Moves(q)
  <2>1. name'[q] = name[q]
    BY <1>2 DEF Moves
  <2>2. at[q] \in {"shooting", "writing"}
    <3>1. ASSUME NEW x \in Awaits, Comes(q, ask[q].do, x), Follows(at[q], x)
          PROVE  at[q] \in {"shooting", "writing"}
      BY <1>0, <3>1 DEF Comes, Follows, HandlersTyped
    <3>2. ASSUME NEW y, Ends(q, y) PROVE FALSE
      BY <1>0, <3>2 DEF Ends, HandlersTyped
    <3> QED BY <1>2, <3>1, <3>2 DEF Moves
  <2> QED BY <1>0, <2>1, <2>2 DEF Naming
<1>3. CASE UNCHANGED <<ask[q], at[q], answer[q], taken[q], name[q]>>
  BY <1>0, <1>3 DEF Naming
<1> QED BY <1>1, <1>2, <1>3, Fates

\* Which names SnapWriter comes to know: at most that of one who has taken a picture.
LEMMA UsesOne ==
  ASSUME Base, NEW r \in Requests, Resume(r)
  PROVE  \/ used' = used
         \/ Shot(r) /\ used' = [used EXCEPT ![On(r)] = @ \cup {name[r]}]
BY DEF Resume, Launched, Navigated, Gated, Undone, Acted, Reached, Regated, Shot, Wrote, Drained,
       Located, Closed, writer

LEMMA UsedStays ==
  ASSUME Base, [Next]_vars PROVE UsedInv'
<1> SUFFICES ASSUME NEW s \in Sessions, NEW n \in used'[s]
             PROVE  \E r \in Requests : ask'[r].on = s /\ name'[r] = n /\ n # <<>>
  BY DEF UsedInv, On
<1>1. CASE n \in used[s]
  <2>1. PICK r \in Requests : On(r) = s /\ name[r] = n /\ n # <<>>
    BY <1>1 DEF Base, UsedInv
  <2>2. at[r] # "out"
    BY <2>1 DEF Base, Shape, AskedOf
  <2> QED BY <2>1, <2>2, NamesStay DEF On
<1>2. CASE n \notin used[s]
  <2>1. PICK r \in Requests : Resume(r) /\ used' # used
    <3>1. ASSUME NEW r \in Requests, Arrive(r) PROVE used' = used
      BY <3>1 DEF Arrive
    <3>2. ASSUME Others PROVE used' = used
      BY <3>2, OthersAside DEF Others, Aside, writer
    <3> QED BY <1>2, <3>1, <3>2, Steps
  <2>2. Shot(r) /\ used' = [used EXCEPT ![On(r)] = @ \cup {name[r]}]
    BY <2>1, UsesOne
  <2>3. s = On(r) /\ n = name[r]
    BY <1>2, <2>2 DEF Base, TypeInv, WriterTyped
  <2>4. at[r] = "shooting" /\ name[r] # <<>>
    BY <2>2 DEF Shot, Base, Naming
  <2> QED BY <2>3, <2>4, NamesStay DEF On
<1> QED BY <1>1, <1>2

LEMMA BaseStays == Base /\ [Next]_vars => Base'
<1> SUFFICES ASSUME Base, [Next]_vars PROVE Base'
  OBVIOUS
<1>1. TypeInv'
  BY HandlersStay, EntriesStay, ErrorsStay, WriterStays, LifeStays, ProcessStays DEF TypeInv
<1> QED BY <1>1, ShapeStays, NamingStays, UsedStays DEF Base

LEMMA DomBase == Spec => []Base
BY InitBase, BaseStays, PTL DEF Spec

\* Types (of the registry, the sessions, their buffers and SnapWriter): every variable keeps
\* its type, no buffer outgrows MAX_BUFFERED, and no more snaps are numbered than came.
THEOREM DomTyped == Spec => []TypeOK
<1>1. Base => TypeOK
  BY TypeInvOK DEF Base
<1> QED BY <1>1, DomBase, PTL

--------------------------------------------------------------------------------
(***************************************************************************)
(* A step during which the page threw is not ok                            *)
(***************************************************************************)

\* Two requests that are at work together are crowded, both.
CrowdInv == \A q, r \in Pending : q # r => {q, r} \subseteq crowded

\* A step whose page threw, and that shared the driver with nobody, still has an error to
\* be charged with, or has been answered otherwise than with ok.
Charged(r) == /\ at[r] \in {"acting", "shooting", "writing", "draining"} => fresh[On(r)] # {}
              /\ at[r] # "locating" /\ answer[r] # "ok"
Quiet(r) == /\ ask[r].do \in {"click", "shoot"}
            /\ at[r] \in {"acting", "shooting", "writing", "draining", "locating", "done"}
            /\ surface[On(r)] = "web" /\ r \notin crowded => Charged(r)
Forgiven(r) == ask[r].do = "goto" /\ at[r] # "out"
QuietInv == \A r \in noisy : Quiet(r) \/ Forgiven(r)

LEMMA CrowdStays ==
  ASSUME Base, CrowdInv, [Next]_vars PROVE CrowdInv'
<1>0. HandlersTyped
  BY DEF Base, TypeInv
<1>1. ASSUME NEW r \in Requests, Arrive(r) PROVE CrowdInv'
  <2>1. PICK a \in Asks : Arrives(r, a)
    BY <1>1, ArriveMoves
  <2>2. PICK x \in Awaits \cup {"done"} : To(r, x)
    BY <2>1, MovesTo
  <2>3. Pending' \subseteq Pending \cup {r}
    BY <1>0, <2>2 DEF To, HandlersTyped, Pending
  <2>4. crowded' = IF Pending = {} THEN crowded ELSE crowded \cup Pending \cup {r}
    BY <1>1 DEF Arrive
  <2> QED BY <2>3, <2>4 DEF CrowdInv
<1>2. ASSUME NEW r \in Requests, Resume(r) PROVE CrowdInv'
  <2>1. Moves(r)
    BY <1>2, ResumeMoves
  <2>2. PICK x \in Awaits \cup {"done"} : To(r, x)
    BY <2>1, MovesTo
  <2>3. Pending' \subseteq Pending /\ crowded' = crowded
    BY <1>0, <2>1, <2>2 DEF Moves, To, HandlersTyped, Pending
  <2> QED BY <2>3 DEF CrowdInv
<1>3. ASSUME Others PROVE CrowdInv'
  <2>1. UNCHANGED <<at, crowded>>
    BY <1>3, OthersAside DEF Others, Aside
  <2> QED BY <2>1 DEF CrowdInv, Pending
<1> QED BY <1>1, <1>2, <1>3, Steps

\* A step that goes on with an error to be charged with ends, and not with ok.
LEMMA ChargedStays ==
  ASSUME Base, NEW r \in Requests, Resume(r), ask[r].do \in {"click", "shoot"},
         surface[On(r)] = "web", at[r] \in Awaits \ {"locating"}, fresh[On(r)] # {}
  PROVE  Charged(r)'
<1>0. HandlersTyped
  BY DEF Base, TypeInv
<1>1. OnWay(ask[r].do, at[r]) /\ IsStep(r) /\ answer[r] = "none"
  BY DEF Base, Shape, IsStep, AskedOf, Awaits
<1>2. at[r] \in {"acting", "shooting", "writing", "draining"}
  BY <1>1 DEF OnWay
<1>3. Moves(r)
  BY ResumeMoves
<1>4. ask' = ask /\ On(r)' = On(r)
  BY <1>3 DEF Moves, On
<1>5. ASSUME Finish(r, "failed") PROVE Charged(r)'
  BY <1>0, <1>5 DEF Finish, Charged, HandlersTyped
<1>6. ASSUME Check(r) PROVE Charged(r)'
  <2>1. Known(r) # {}
    BY DEF Known
  <2> QED BY <1>5, <1>6, <2>1 DEF Check
<1>7. Fault(r) = "failed"
  BY <1>1 DEF Fault
<1>8. CASE at[r] = "acting"
  <2>1. Acted(r)
    BY <1>8 DEF Resume, Launched, Navigated, Gated, Undone, Reached, Regated, Shot, Wrote, Drained,
                Located, Closed
  <2> QED BY <1>1, <1>5, <1>6, <1>7, <2>1 DEF Acted
<1>9. CASE at[r] = "shooting"
  <2>1. Shot(r)
    BY <1>9 DEF Resume, Launched, Navigated, Gated, Undone, Acted, Reached, Regated, Wrote, Drained,
                Located, Closed
  <2>2. fresh' = fresh
    BY <2>1 DEF Shot, events
  <2>3. ASSUME Go(r, "writing") PROVE Charged(r)'
    BY <1>0, <1>1, <1>4, <2>2, <2>3 DEF Go, Charged, HandlersTyped
  <2> QED BY <1>5, <1>7, <2>1, <2>3 DEF Shot
<1>10. CASE at[r] = "writing"
  <2>1. Wrote(r)
    BY <1>10 DEF Resume, Launched, Navigated, Gated, Undone, Acted, Reached, Regated, Shot, Drained,
                 Located, Closed
  <2> QED BY <1>1, <1>5, <1>6, <1>7, <2>1 DEF Wrote, EndSnap
<1>11. CASE at[r] = "draining"
  <2>1. Drained(r)
    BY <1>11 DEF Resume, Launched, Navigated, Gated, Undone, Acted, Reached, Regated, Shot, Wrote,
                 Located, Closed
  <2> QED BY <1>1, <1>6, <2>1 DEF Drained, EndSnap
<1> QED BY <1>2, <1>8, <1>9, <1>10, <1>11

LEMMA QuietStays ==
  ASSUME Base, CrowdInv, QuietInv, [Next]_vars PROVE QuietInv'
<1> SUFFICES ASSUME NEW r \in noisy' PROVE Quiet(r)' \/ Forgiven(r)'
  BY DEF QuietInv
<1>0. HandlersTyped /\ HandlersTyped' /\ ErrorsTyped
  BY BaseStays DEF Base, TypeInv
<1>1. r \in Requests
  BY <1>0 DEF HandlersTyped
<1>2. ASSUME NEW p \in Requests, Arrive(p) \/ Resume(p), p # r
      PROVE  /\ ask'[r] = ask[r] /\ at'[r] = at[r] /\ answer'[r] = answer[r]
             /\ noisy' = noisy /\ crowded \subseteq crowded' /\ surface' = surface
  <2>1. CASE Arrive(p)
    <3>1. PICK a \in Asks : Arrives(p, a)
      BY <2>1, ArriveMoves
    <3>2. PICK x \in Awaits \cup {"done"} : To(p, x)
      BY <3>1, MovesTo
    <3>3. noisy' = noisy /\ surface' = surface /\ crowded \subseteq crowded'
      BY <2>1 DEF Arrive, process
    <3> QED BY <1>0, <1>1, <1>2, <3>1, <3>2, <3>3 DEF Arrives, To, HandlersTyped
  <2>2. CASE Resume(p)
    <3>1. Moves(p)
      BY <2>2, ResumeMoves
    <3>2. PICK x \in Awaits \cup {"done"} : To(p, x)
      BY <3>1, MovesTo
    <3> QED BY <1>0, <1>1, <1>2, <3>1, <3>2 DEF Moves, process, To, HandlersTyped
  <2> QED BY <1>2, <2>1, <2>2
<1>3. ASSUME NEW p \in Requests, Arrive(p) PROVE Quiet(r)' \/ Forgiven(r)'
  <2>1. r \in noisy /\ fresh' = fresh
    BY <1>3 DEF Arrive, events
  <2>2. p # r
    <3>1. at[p] = "out"
      BY <1>3, ArriveMoves
    <3> QED BY <2>1, <3>1 DEF QuietInv, Quiet, Forgiven
  <2>3. On(r)' = On(r)
    BY <1>2, <1>3, <2>2 DEF On
  <2> QED BY <1>2, <1>3, <2>1, <2>2, <2>3 DEF QuietInv, Quiet, Forgiven, Charged
<1>4. ASSUME NEW p \in Requests, Resume(p) PROVE Quiet(r)' \/ Forgiven(r)'
  <2>0. Moves(p)
    BY <1>4, ResumeMoves
  <2>1. r \in noisy /\ crowded' = crowded /\ surface' = surface /\ ask' = ask
    BY <2>0 DEF Moves, process
  <2>2. On(r)' = On(r)
    BY <2>1 DEF On
  <2>3. CASE p # r
    <3>1. at'[r] = at[r] /\ answer'[r] = answer[r]
      BY <1>2, <1>4, <2>3
    <3>2. CASE Forgiven(r)
      BY <2>1, <3>1, <3>2 DEF Forgiven
    <3>3. CASE Quiet(r)
      <4>1. ASSUME surface[On(r)] = "web", r \notin crowded PROVE Charged(r)'
        <5>1. r \notin Pending
          BY <1>1, <2>0, <2>3, <4>1 DEF CrowdInv, Moves, Pending
        <5>2. at[r] = "done"
          BY <1>1, <3>3, <5>1 DEF Quiet, Pending, Awaits
        <5>3. answer[r] # "ok"
          BY <3>3, <4>1 DEF Quiet, Charged
        <5> QED BY <3>1, <5>2, <5>3 DEF Charged
      <4> QED BY <2>1, <2>2, <3>1, <3>3, <4>1 DEF Quiet
    <3> QED BY <2>1, <3>2, <3>3 DEF QuietInv
  <2>4. CASE p = r
    <3>1. PICK x \in Awaits \cup {"done"} : To(r, x) /\ (x \in Awaits => OnWay(ask[r].do, x))
      BY <2>0, <2>4, MovesTo
    <3>2. at'[r] = x
      BY <1>0, <1>1, <3>1 DEF To, HandlersTyped
    <3>3. CASE Forgiven(r)
      BY <2>1, <3>2, <3>3 DEF Forgiven, Awaits
    <3>4. CASE Quiet(r)
      <4>1. at'[r] \in {"acting", "shooting", "writing", "draining", "locating", "done"}
        BY <3>1, <3>2, <3>4 DEF OnWay, Quiet
      <4>2. ASSUME surface[On(r)] = "web", r \notin crowded PROVE Charged(r)'
        <5>1. Charged(r) /\ at[r] \in Awaits
          BY <2>0, <2>4, <3>4, <4>2 DEF Quiet, Moves
        <5>2. at[r] \in Awaits \ {"locating"} /\ fresh[On(r)] # {}
          BY <3>4, <5>1 DEF Quiet, Charged, Awaits
        <5>3. ask[r].do \in {"click", "shoot"}
          BY <3>4 DEF Quiet
        <5> QED BY <1>1, <1>4, <2>4, <4>2, <5>2, <5>3, ChargedStays
      <4> QED BY <2>1, <2>2, <3>4, <4>1, <4>2 DEF Quiet
    <3> QED BY <2>1, <3>3, <3>4 DEF QuietInv
  <2> QED BY <2>3, <2>4
<1>5. ASSUME Others PROVE Quiet(r)' \/ Forgiven(r)'
  <2>1. UNCHANGED <<ask, at, answer, crowded, surface>> /\ On(r)' = On(r)
    BY <1>5, OthersAside DEF Others, Aside, On
  <2>2. CASE UNCHANGED <<noisy, events>>
    BY <2>1, <2>2 DEF events, QuietInv, Quiet, Forgiven, Charged
  <2>3. ASSUME NEW s \in Sessions, Raise(s) PROVE Quiet(r)' \/ Forgiven(r)'
    <3>1. noisy' = noisy \cup {q \in Pending : On(q) = s /\ IsStep(q) /\ at[q] # "locating"}
      BY <2>3 DEF Raise
    <3>2. /\ fresh' = IF surface[s] = "web" THEN [fresh EXCEPT ![s] = @ \cup {raised[s] + 1}]
                                            ELSE fresh
      BY <2>3 DEF Raise
    <3>3. CASE r \in noisy
      <4>1. fresh[On(r)] # {} => fresh'[On(r)] # {}
        BY <1>0, <2>3, <3>2 DEF ErrorsTyped
      <4>2. CASE Quiet(r)
        BY <2>1, <4>1, <4>2 DEF Quiet, Charged
      <4>3. CASE Forgiven(r)
        BY <2>1, <4>3 DEF Forgiven
      <4> QED BY <3>3, <4>2, <4>3 DEF QuietInv
    <3>4. CASE r \notin noisy
      <4>1. r \in Pending /\ On(r) = s /\ IsStep(r) /\ at[r] # "locating"
        BY <3>1, <3>4
      <4>2. OnWay(ask[r].do, at[r]) /\ answer[r] = "none" /\ at[r] # "out"
        BY <1>1, <4>1 DEF Base, Shape, AskedOf, Awaits, Pending
      <4>3. CASE ask[r].do = "goto"
        BY <2>1, <4>2, <4>3 DEF Forgiven
      <4>4. CASE ask[r].do # "goto"
        <5>1. ask[r].do \in {"click", "shoot"}
          BY <4>1, <4>4 DEF IsStep
        <5>2. at[r] \in {"acting", "shooting", "writing", "draining"}
          BY <4>1, <4>2, <5>1 DEF OnWay
        <5>3. surface[s] = "web" => fresh'[s] # {}
          BY <1>0, <2>3, <3>2 DEF ErrorsTyped
        <5> QED BY <2>1, <4>1, <4>2, <5>1, <5>2, <5>3 DEF Quiet, Charged
      <4> QED BY <4>3, <4>4
    <3> QED BY <3>3, <3>4
  <2> QED BY <1>5, <2>2, <2>3, OthersAside DEF Others, Aside
<1> QED BY <1>3, <1>4, <1>5, Steps

LEMMA QuietAlways == Spec => [](Base /\ CrowdInv /\ QuietInv)
<1>1. Init => CrowdInv /\ QuietInv
  BY DEF Init, CrowdInv, Pending, Awaits, QuietInv
<1>2. Base /\ CrowdInv /\ QuietInv /\ [Next]_vars => (Base /\ CrowdInv /\ QuietInv)'
  BY BaseStays, CrowdStays, QuietStays
<1> QED BY <1>1, <1>2, InitBase, PTL DEF Spec

\* "Uncaught exceptions during a step fail that step" (driver.test.ts, Session.act): a step
\* on a web page that threw meanwhile is not answered ok, unless another request was at
\* work beside it, or the step is an `open`, whose readiness gate forgives what was thrown.
THEOREM ThrowingStepsFail == Spec => []OkMeansQuiet
<1>1. Base /\ CrowdInv /\ QuietInv => OkMeansQuiet
  BY DEF OkMeansQuiet, QuietInv, Quiet, Forgiven, Charged
<1> QED BY <1>1, QuietAlways, PTL

--------------------------------------------------------------------------------
(***************************************************************************)
(* Every console entry goes to one place                                   *)
(***************************************************************************)
Entries == Seq(1 .. MaxErrors)
Rising(q) == \A i, j \in DOMAIN q : i < j => q[i] < q[j]

\* The entries of s in the answer to r, and those still to be drained.
Mine(r, s) == IF On(r) = s THEN ToSet(taken[r]) ELSE {}
Log(s)     == ToSet(log[s])

\* A request takes entries when it is nearly over, and once.
TakenLate == \A r \in Requests : taken[r] # <<>> => at[r] \in {"undoing", "locating", "done"}

\* Every entry is somewhere, none is in two places, and the log comes after what was taken.
Somewhere(s) ==
  \A e \in 1 .. raised[s] : e \in Log(s) \/ e \in lost[s] \/ \E r \in Requests : e \in Mine(r, s)
OnlyOnce(s) ==
  /\ Log(s) \cap lost[s] = {}
  /\ \A r \in Requests : Mine(r, s) \cap lost[s] = {}
  /\ \A q, r \in Requests : q # r => Mine(q, s) \cap Mine(r, s) = {}
InOrder(s) ==
  /\ Rising(log[s])
  /\ Log(s) \cup lost[s] \subseteq 1 .. raised[s]
  /\ \A r \in Requests : /\ Mine(r, s) \subseteq 1 .. raised[s]
                         /\ \A e \in Mine(r, s) : \A d \in Log(s) : e < d
Placed(s) == Somewhere(s) /\ OnlyOnce(s) /\ InOrder(s)
EntriesInv == TakenLate /\ \A s \in Sessions : Placed(s)

LEMMA EmptyLog == ToSet(<<>>) = {} /\ Rising(<<>>)
BY DEF ToSet, Rising

LEMMA ToSetEmpty == ASSUME NEW S, NEW q \in Seq(S), ToSet(q) = {} PROVE q = <<>>
<1> SUFFICES ASSUME q # <<>> PROVE FALSE
  OBVIOUS
<1>1. 1 \in 1 .. Len(q)
  BY EmptySeq
<1> QED BY <1>1, ToSetIn

\* Pushing an entry that is younger than the others.
LEMMA PushRises ==
  ASSUME NEW q \in Entries, NEW e \in 1 .. MaxErrors, Rising(q), \A d \in ToSet(q) : d < e
  PROVE  /\ Rising(Push(q, e))
         /\ ToSet(Push(q, e)) \subseteq ToSet(q) \cup {e} /\ e \in ToSet(Push(q, e))
<1> DEFINE n == Len(q)
<1>0. n \in Nat /\ DOMAIN q = 1 .. n /\ \A i \in 1 .. n : q[i] \in 1 .. MaxErrors /\ q[i] < e
  <2>1. n \in Nat /\ DOMAIN q = 1 .. n
    BY LenProperties DEF Entries
  <2>2. \A i \in 1 .. n : q[i] \in 1 .. MaxErrors
    BY ElementOfSeq DEF Entries
  <2>3. \A i \in 1 .. n : q[i] \in ToSet(q)
    BY ToSetIn DEF Entries
  <2> QED BY <2>1, <2>2, <2>3
\* The last entries of q, from after the k-th, and then e.
<1>1. ASSUME NEW t \in Entries, NEW k \in {0, 1}, Len(t) = n - k, n - k \in Nat,
             \A i \in 1 .. n - k : t[i] = q[i + k]
      PROVE  /\ Rising(Append(t, e))
             /\ ToSet(Append(t, e)) \subseteq ToSet(q) \cup {e} /\ e \in ToSet(Append(t, e))
  <2> DEFINE p == Append(t, e)
             m == n - k + 1
  <2>1. /\ p \in Entries /\ Len(p) = m /\ m \in Nat
        /\ \A i \in 1 .. n - k : p[i] = q[i + k]
        /\ p[m] = e
    BY <1>1, AppendProperties DEF Entries
  <2>2. DOMAIN p = 1 .. m
    BY <2>1, LenProperties DEF Entries
  <2>3. \A i \in 1 .. m : i = m \/ i \in 1 .. n - k
    BY <1>0, <1>1
  <2> HIDE DEF p, m
  <2>4. Rising(p)
    <3> SUFFICES ASSUME NEW i \in 1 .. m, NEW j \in 1 .. m, i < j PROVE p[i] < p[j]
      BY <2>2 DEF Rising
    <3>1. i \in 1 .. n - k /\ i + k \in 1 .. n /\ p[i] = q[i + k]
      BY <1>0, <1>1, <2>1, <2>3
    <3>2. CASE j = m
      BY <1>0, <2>1, <3>1, <3>2
    <3>3. CASE j \in 1 .. n - k
      <4>1. p[j] = q[j + k] /\ j + k \in 1 .. n /\ i + k < j + k
        BY <1>0, <1>1, <2>1, <3>3
      <4> QED BY <1>0, <3>1, <4>1 DEF Rising
    <3> QED BY <2>3, <3>2, <3>3
  <2>5. \A x \in ToSet(p) : x \in ToSet(q) \cup {e}
    <3> SUFFICES ASSUME NEW i \in 1 .. m PROVE p[i] \in ToSet(q) \cup {e}
      BY <2>1, ToSetIn DEF Entries
    <3>1. CASE i \in 1 .. n - k
      <4>1. p[i] = q[i + k] /\ i + k \in 1 .. n
        BY <1>0, <1>1, <2>1, <3>1
      <4> QED BY <4>1, ToSetIn DEF Entries
    <3> QED BY <2>1, <2>3, <3>1
  <2>6. e \in ToSet(p)
    <3>1. m \in 1 .. Len(p)
      BY <1>1, <2>1 DEF m
    <3> QED BY <2>1, <3>1, ToSetIn DEF Entries
  <2> QED BY <2>4, <2>5, <2>6 DEF p
<1>2. CASE Len(q) >= Buffered
  <2>1. q # <<>>
    BY <1>2, EmptySeq, Constants
  <2>2. /\ Tail(q) \in Entries /\ Len(Tail(q)) = n - 1
        /\ \A i \in 1 .. n - 1 : Tail(q)[i] = q[i + 1]
    BY <2>1, HeadTailProperties DEF Entries
  <2>3. n - 1 \in Nat
    BY <1>0, <1>2, Constants
  <2>4. Push(q, e) = Append(Tail(q), e)
    BY <1>2 DEF Push
  <2> HIDE DEF n
  <2> QED BY <1>1, <2>2, <2>3, <2>4
<1>3. CASE ~(Len(q) >= Buffered)
  <2>1. Push(q, e) = Append(q, e)
    BY <1>3 DEF Push
  <2>2. n - 0 = n
    BY <1>0
  <2>3. \A i \in 1 .. n - 0 : q[i] = q[i + 0]
    BY <1>0
  <2> HIDE DEF n
  <2> QED BY <1>0, <1>1, <2>1, <2>2, <2>3 DEF n
<1> QED BY <1>2, <1>3

\* Nothing has happened to the entries of s.
Untouched(s) == /\ log'[s] = log[s] /\ lost'[s] = lost[s] /\ raised'[s] = raised[s]
                /\ \A r \in Requests : Mine(r, s)' = Mine(r, s)

LEMMA UntouchedPlaced ==
  ASSUME NEW s \in Sessions, Placed(s), Untouched(s) PROVE Placed(s)'
<1>1. Log(s)' = Log(s)
  BY DEF Untouched, Log
<1>2. Somewhere(s)'
  BY <1>1 DEF Untouched, Placed, Somewhere
<1>3. OnlyOnce(s)'
  BY <1>1 DEF Untouched, Placed, OnlyOnce
<1>4. InOrder(s)'
  BY <1>1 DEF Untouched, Placed, InOrder
<1> QED BY <1>2, <1>3, <1>4 DEF Placed

\* A request that has taken nothing has no entries on any session.
LEMMA NothingTaken ==
  ASSUME NEW r, taken[r] = <<>> PROVE \A s : Mine(r, s) = {}
BY EmptyLog DEF Mine

LEMMA LateStays ==
  ASSUME Base, TakenLate, [Next]_vars PROVE TakenLate'
<1> SUFFICES ASSUME NEW q \in Requests, taken'[q] # <<>>
             PROVE  at'[q] \in {"undoing", "locating", "done"}
  BY DEF TakenLate
<1>0. HandlersTyped /\ EntriesTyped
  BY DEF Base, TypeInv
<1>1. CASE at[q] = "out" /\ \E a \in Asks : Arrives(q, a)
  <2>1. taken'[q] = <<>>
    BY <1>1 DEF Arrives, Base, Shape, AskedOf
  <2> QED BY <2>1
<1>2. CASE Moves(q) /\ Handles(q)
  <2>1. CASE Gives(q)
    BY <2>1 DEF Gives
  <2>2. CASE ~Gives(q)
    <3>1. taken' = taken
      BY <1>2, <2>2 DEF Handles, Drops
    <3>2. at[q] \in {"undoing", "locating"}
      BY <1>2, <3>1 DEF TakenLate, Moves, Awaits
    <3>3. \E y \in {"ok", "failed", "error"} : Ends(q, y)
      BY <1>2, <3>2 DEF Moves, Follows
    <3> QED BY <1>0, <3>3 DEF Ends, HandlersTyped
  <2> QED BY <2>1, <2>2
<1>3. CASE UNCHANGED <<ask[q], at[q], answer[q], taken[q], name[q]>>
  BY <1>3 DEF TakenLate
<1> QED BY <1>1, <1>2, <1>3, Fates

LEMMA PlacedStays ==
  ASSUME Base, EntriesInv, [Next]_vars, NEW s \in Sessions PROVE Placed(s)'
<1>0. /\ HandlersTyped /\ EntriesTyped /\ ErrorsTyped /\ TakenLate
      /\ Placed(s)
  BY DEF Base, TypeInv, EntriesInv
<1>1. ASSUME NEW r \in Requests, Arrive(r) PROVE Placed(s)'
  <2>1. PICK a \in Asks : Arrives(r, a)
    BY <1>1, ArriveMoves
  <2>2. UNCHANGED <<log, lost, raised, taken>> /\ ask' = [ask EXCEPT ![r] = a]
    BY <2>1 DEF Arrives, events
  <2>3. ASSUME NEW q \in Requests PROVE Mine(q, s)' = Mine(q, s)
    <3>1. CASE q = r
      <4>1. taken[q] = <<>> /\ taken'[q] = <<>>
        BY <1>1, <2>2, <3>1, ArriveMoves DEF Base, Shape, AskedOf
      <4>2. Mine(q, s) = {}
        BY <4>1, NothingTaken
      <4>3. Mine(q, s)' = {}
        BY <4>1, EmptyLog DEF Mine
      <4> QED BY <4>2, <4>3
    <3>2. CASE q # r
      <4>1. On(q)' = On(q)
        BY <1>0, <2>2, <3>2 DEF On, HandlersTyped
      <4> QED BY <2>2, <4>1 DEF Mine
    <3> QED BY <3>1, <3>2
  <2> QED BY <1>0, <2>2, <2>3, UntouchedPlaced DEF Untouched
<1>2. ASSUME NEW r \in Requests, Resume(r) PROVE Placed(s)'
  <2>0. Moves(r) /\ Handles(r) /\ On(r) \in Sessions
    BY <1>2, ResumeMoves, ResumeHandles, OnSession DEF Moves, Awaits
  <2>1. raised' = raised /\ \A q : On(q)' = On(q)
    BY <2>0 DEF Handles, Moves, On
  <2>2. CASE UNCHANGED <<log, taken, lost>>
    <3>1. \A q \in Requests : Mine(q, s)' = Mine(q, s)
      BY <2>1, <2>2 DEF Mine
    <3> QED BY <1>0, <2>1, <2>2, <3>1, UntouchedPlaced DEF Untouched
  <2>3. CASE Gives(r)
    <3>1. CASE s = On(r)
      <4>1. Mine(r, s) = {}
        <5>1. taken[r] = <<>>
          BY <1>0, <2>3 DEF Gives, TakenLate
        <5> QED BY <5>1, NothingTaken
      <4>2. Mine(r, s)' = Log(s)
        <5>1. taken'[r] = log[s]
          BY <1>0, <2>3, <3>1 DEF Gives, EntriesTyped
        <5> QED BY <2>1, <3>1, <5>1 DEF Mine, Log
      <4>3. \A q \in Requests : q # r => Mine(q, s)' = Mine(q, s)
        <5>1. \A q \in Requests : q # r => taken'[q] = taken[q]
          BY <1>0, <2>3 DEF Gives, EntriesTyped
        <5> QED BY <2>1, <5>1 DEF Mine
      <4>4. log'[s] = <<>> /\ lost' = lost /\ Log(s)' = {} /\ Rising(log[s])'
        <5>1. log'[s] = <<>> /\ lost' = lost
          BY <1>0, <2>3, <3>1 DEF Gives, EntriesTyped
        <5> QED BY <5>1, EmptyLog DEF Log
      <4>5. Somewhere(s)'
        BY <1>0, <2>1, <4>1, <4>2, <4>3, <4>4 DEF Placed, Somewhere
      <4>6. OnlyOnce(s)'
        <5>1. \A q \in Requests : q # r => Mine(q, s) \cap Log(s) = {}
          <6>1. \A q \in Requests : \A e \in Mine(q, s) : e \in 1 .. raised[s]
            BY <1>0 DEF Placed, InOrder
          <6>2. raised[s] \in Nat
            BY <1>0, Constants DEF ErrorsTyped
          <6> QED BY <1>0, <6>1, <6>2 DEF Placed, InOrder
        <5> QED BY <1>0, <4>2, <4>3, <4>4, <5>1 DEF Placed, OnlyOnce
      <4>7. InOrder(s)'
        BY <1>0, <2>1, <4>2, <4>3, <4>4 DEF Placed, InOrder
      <4> QED BY <4>5, <4>6, <4>7 DEF Placed
    <3>2. CASE s # On(r)
      <4>1. log'[s] = log[s] /\ lost' = lost
        BY <1>0, <2>3, <3>2 DEF Gives, EntriesTyped
      <4>2. ASSUME NEW q \in Requests PROVE Mine(q, s)' = Mine(q, s)
        <5>1. CASE q = r
          BY <2>1, <3>2, <5>1 DEF Mine
        <5>2. CASE q # r
          <6>1. taken'[q] = taken[q]
            BY <1>0, <2>3, <5>2 DEF Gives, EntriesTyped
          <6> QED BY <2>1, <6>1 DEF Mine
        <5> QED BY <5>1, <5>2
      <4> QED BY <1>0, <2>1, <4>1, <4>2, UntouchedPlaced DEF Untouched
    <3> QED BY <3>1, <3>2
  <2>4. CASE Drops(On(r))
    <3>1. \A q \in Requests : Mine(q, s)' = Mine(q, s)
      BY <2>1, <2>4 DEF Drops, Mine
    <3>2. CASE s = On(r)
      <4>1. log'[s] = <<>> /\ Log(s)' = {} /\ Rising(log[s])' /\ lost'[s] = lost[s] \cup Log(s)
        <5>1. log'[s] = <<>> /\ lost'[s] = lost[s] \cup ToSet(log[s])
          BY <1>0, <2>4, <3>2 DEF Drops, EntriesTyped, ErrorsTyped
        <5> QED BY <5>1, EmptyLog DEF Log
      <4>2. \A q \in Requests : Mine(q, s) \cap Log(s) = {}
        <5>1. \A q \in Requests : \A e \in Mine(q, s) : e \in 1 .. raised[s]
          BY <1>0 DEF Placed, InOrder
        <5>2. raised[s] \in Nat
          BY <1>0, Constants DEF ErrorsTyped
        <5> QED BY <1>0, <5>1, <5>2 DEF Placed, InOrder
      <4>3. Somewhere(s)'
        BY <1>0, <2>1, <3>1, <4>1 DEF Placed, Somewhere
      <4>4. OnlyOnce(s)'
        BY <1>0, <3>1, <4>1, <4>2 DEF Placed, OnlyOnce
      <4>5. InOrder(s)'
        BY <1>0, <2>1, <3>1, <4>1 DEF Placed, InOrder
      <4> QED BY <4>3, <4>4, <4>5 DEF Placed
    <3>3. CASE s # On(r)
      <4>1. log'[s] = log[s] /\ lost'[s] = lost[s]
        BY <1>0, <2>0, <2>4, <3>3 DEF Drops, EntriesTyped, ErrorsTyped
      <4> QED BY <1>0, <2>1, <3>1, <4>1, UntouchedPlaced DEF Untouched
    <3> QED BY <3>2, <3>3
  <2> QED BY <2>0, <2>2, <2>3, <2>4 DEF Handles
<1>3. ASSUME NEW z \in Sessions, Raise(z) PROVE Placed(s)'
  <2>0. UNCHANGED <<taken, ask>>
    BY <1>3 DEF Raise
  <2>1. \A q \in Requests : Mine(q, s)' = Mine(q, s)
    BY <2>0 DEF Mine, On
  <2> DEFINE e == raised[z] + 1
             new == Push(log[z], e)
  <2>2. /\ raised' = [raised EXCEPT ![z] = e] /\ log' = [log EXCEPT ![z] = new]
        /\ lost' = [lost EXCEPT ![z] = lost[z] \cup (ToSet(log[z]) \ ToSet(new))]
    BY <1>3 DEF Raise
  <2>3. CASE s # z
    <3>1. log'[s] = log[s] /\ lost'[s] = lost[s] /\ raised'[s] = raised[s]
      BY <1>0, <2>2, <2>3 DEF EntriesTyped, ErrorsTyped
    <3> QED BY <1>0, <2>1, <3>1, UntouchedPlaced DEF Untouched
  <2>4. CASE s = z
    <3>1. raised[s] \in Nat /\ e \in 1 .. MaxErrors /\ log[s] \in Entries
      BY <1>0, <1>3, <2>4, Constants DEF Raise, ErrorsTyped, EntriesTyped, Entries
    <3>2. Rising(log[s]) /\ \A d \in ToSet(log[s]) : d < e
      BY <1>0, <2>4, <3>1 DEF Placed, InOrder, Log
    <3>3. Rising(new) /\ ToSet(new) \subseteq ToSet(log[s]) \cup {e} /\ e \in ToSet(new)
      BY <2>4, <3>1, <3>2, PushRises
    <3>4. /\ raised'[s] = e /\ log'[s] = new
          /\ lost'[s] = lost[s] \cup (Log(s) \ ToSet(new)) /\ Log(s)' = ToSet(new)
      BY <1>0, <2>2, <2>4 DEF EntriesTyped, ErrorsTyped, Log
    <3>5. \A q \in Requests : \A d \in Mine(q, s) : d \in 1 .. raised[s] /\ d \notin Log(s) /\ d # e
      <4>1. \A q \in Requests : \A d \in Mine(q, s) : d \in 1 .. raised[s]
        BY <1>0 DEF Placed, InOrder
      <4>2. \A q \in Requests : \A d \in Mine(q, s) : d \notin Log(s)
        BY <1>0, <3>1, <4>1 DEF Placed, InOrder
      <4> QED BY <2>4, <3>1, <4>1, <4>2
    <3>6. e \notin Log(s) /\ e \notin lost[s]
      <4>1. Log(s) \cup lost[s] \subseteq 1 .. raised[s]
        BY <1>0 DEF Placed, InOrder
      <4> QED BY <2>4, <3>1, <4>1
    <3>7. 1 .. e = (1 .. raised[s]) \cup {e}
      BY <2>4, <3>1
    <3> HIDE DEF e, new
    <3>8. Somewhere(s)'
      BY <1>0, <2>1, <3>3, <3>4, <3>7 DEF Placed, Somewhere, Log
    <3>9. OnlyOnce(s)'
      BY <1>0, <2>1, <3>3, <3>4, <3>5, <3>6 DEF Placed, OnlyOnce, Log
    <3>10. InOrder(s)'
      <4>1. Rising(log[s])'
        BY <3>3, <3>4
      <4>2. Log(s)' \cup lost'[s] \subseteq 1 .. e
        BY <1>0, <3>3, <3>4, <3>7 DEF Placed, InOrder, Log
      <4>3. \A q \in Requests : Mine(q, s) \subseteq 1 .. e
        BY <3>5, <3>7
      <4>4. \A q \in Requests : \A d \in Mine(q, s) : \A x \in Log(s)' : d < x
        <5>1. \A q \in Requests : \A d \in Mine(q, s) : d < e
          BY <2>4, <3>1, <3>5 DEF e
        <5>2. \A q \in Requests : \A d \in Mine(q, s) : \A x \in Log(s) : d < x
          BY <1>0 DEF Placed, InOrder
        <5> QED BY <3>3, <3>4, <5>1, <5>2 DEF Log
      <4> QED BY <2>1, <3>4, <4>1, <4>2, <4>3, <4>4 DEF InOrder
    <3> QED BY <3>8, <3>9, <3>10 DEF Placed
  <2> QED BY <2>3, <2>4
<1>4. ASSUME Others, \A z \in Sessions : ~Raise(z) PROVE Placed(s)'
  <2>1. UNCHANGED <<ask, taken, events>>
    BY <1>4, OthersAside DEF Others, Aside
  <2>2. \A q \in Requests : Mine(q, s)' = Mine(q, s)
    BY <2>1 DEF Mine, On
  <2> QED BY <1>0, <2>1, <2>2, UntouchedPlaced DEF Untouched, events
<1> QED BY <1>1, <1>2, <1>3, <1>4, Steps

LEMMA EntriesAlways == Spec => [](Base /\ EntriesInv)
<1>1. Init => EntriesInv
  <2> SUFFICES ASSUME Init PROVE EntriesInv
    OBVIOUS
  <2>1. TakenLate
    BY DEF Init, TakenLate
  <2>2. ASSUME NEW s \in Sessions PROVE Placed(s)
    <3>1. raised[s] = 0 /\ log[s] = <<>> /\ lost[s] = {} /\ \A r \in Requests : taken[r] = <<>>
      BY <2>2 DEF Init
    <3>2. Log(s) = {} /\ Rising(log[s]) /\ \A r \in Requests : Mine(r, s) = {}
      BY <3>1, EmptyLog, NothingTaken DEF Log
    <3> QED BY <3>1, <3>2 DEF Placed, Somewhere, OnlyOnce, InOrder
  <2> QED BY <2>1, <2>2 DEF EntriesInv
<1>2. Base /\ EntriesInv /\ [Next]_vars => (Base /\ EntriesInv)'
  <2> SUFFICES ASSUME Base, EntriesInv, [Next]_vars PROVE Base' /\ EntriesInv'
    OBVIOUS
  <2>1. TakenLate'
    BY LateStays DEF EntriesInv
  <2>2. \A s \in Sessions : Placed(s)'
    BY PlacedStays
  <2> QED BY <2>1, <2>2, BaseStays DEF EntriesInv
<1> QED BY <1>1, <1>2, InitBase, PTL DEF Spec

\* "Snaps carry console errors since the previous snap" (drainQuietly, EventRecorder): every
\* entry a page has thrown is in one answer, or still to be drained, or was lost with a full
\* buffer, with a page or with the snap of a step that failed after it was drained (which is
\* answered without it), never two of these, and what an answer has is older than what is to
\* come.
THEOREM EntriesGoToOne == Spec => []EntriesGoOnce
<1>1. Base /\ EntriesInv => EntriesGoOnce
  <2> SUFFICES ASSUME Base, EntriesInv, NEW s \in Sessions
               PROVE  LET mine      == {r \in Requests : On(r) = s}
                          places(e) == {<<"taken", r>> : r \in {q \in mine : e \in ToSet(taken[q])}}
                                         \cup {<<"log", d>> : d \in {e} \cap ToSet(log[s])}
                                         \cup {<<"lost", d>> : d \in {e} \cap lost[s]}
                      IN  /\ \A e \in 1 .. raised[s] : Cardinality(places(e)) = 1
                          /\ \A r \in mine : \A e \in ToSet(taken[r]) : \A d \in ToSet(log[s]) : e < d
    BY DEF EntriesGoOnce
  <2> DEFINE mine      == {r \in Requests : On(r) = s}
             places(e) == {<<"taken", r>> : r \in {q \in mine : e \in ToSet(taken[q])}}
                            \cup {<<"log", d>> : d \in {e} \cap ToSet(log[s])}
                            \cup {<<"lost", d>> : d \in {e} \cap lost[s]}
  <2>0. Placed(s)
    BY DEF EntriesInv
  <2>1. ASSUME NEW e \in 1 .. raised[s] PROVE Cardinality(places(e)) = 1
    <3>1. CASE \E r \in Requests : e \in Mine(r, s)
      <4>1. PICK r \in Requests : e \in Mine(r, s)
        BY <3>1
      <4>2. r \in mine /\ e \in ToSet(taken[r])
        BY <4>1 DEF Mine
      <4>3. \A q \in mine : e \in ToSet(taken[q]) => q = r
        BY <2>0, <4>1 DEF Placed, OnlyOnce, Mine
      <4>4. e \notin ToSet(log[s]) /\ e \notin lost[s]
        <5>1. e \in Nat
          BY Constants DEF Base, TypeInv, ErrorsTyped
        <5> QED BY <2>0, <4>1, <5>1 DEF Placed, OnlyOnce, InOrder, Log
      <4>5. places(e) = {<<"taken", r>>}
        BY <4>2, <4>3, <4>4
      <4> QED BY <4>5, FS_Singleton
    <3>2. CASE ~(\E r \in Requests : e \in Mine(r, s)) /\ e \in Log(s)
      <4>1. e \in ToSet(log[s]) /\ e \notin lost[s]
        BY <2>0, <3>2 DEF Placed, OnlyOnce, Log
      <4>2. \A q \in mine : e \notin ToSet(taken[q])
        BY <3>2 DEF Mine
      <4>3. places(e) = {<<"log", e>>}
        BY <4>1, <4>2
      <4> QED BY <4>3, FS_Singleton
    <3>3. CASE ~(\E r \in Requests : e \in Mine(r, s)) /\ e \notin Log(s)
      <4>1. e \notin ToSet(log[s]) /\ e \in lost[s]
        BY <2>0, <2>1, <3>3 DEF Placed, Somewhere, Log
      <4>2. \A q \in mine : e \notin ToSet(taken[q])
        BY <3>3 DEF Mine
      <4>3. places(e) = {<<"lost", e>>}
        BY <4>1, <4>2
      <4> QED BY <4>3, FS_Singleton
    <3> QED BY <3>1, <3>2, <3>3
  <2>2. \A r \in mine : \A e \in ToSet(taken[r]) : \A d \in ToSet(log[s]) : e < d
    BY <2>0 DEF Placed, InOrder, Mine, Log
  <2> QED BY <2>1, <2>2
<1> QED BY <1>1, EntriesAlways, PTL

--------------------------------------------------------------------------------
(***************************************************************************)
(* No snapshot overwrites another                                          *)
(***************************************************************************)

\* Nobody asks for a name that looks like a number; the number of a snap without a name is
\* not looked up (snapshot.ts:33), and `snap-001` would be one.
NoLookalike == \A a \in Asks : a.name # <<>> => Head(a.name) # "snap-"

\* A name is a number that has been given, or one that was asked for.
NumberedOrAsked(r) == \/ \E k \in 1 .. counter[On(r)] : name[r] = <<"snap-", k>>
                      \/ Head(name[r]) # "snap-"
NumbersInv == \A r \in Requests : name[r] # <<>> => NumberedOrAsked(r)

\* Whoever writes has its name in use, and so has everything that is written.
WritesInv == \A r \in Requests : at[r] \in {"writing", "draining"} => name[r] \in used[On(r)]
FileOf(f, s) == LET r == f[2]
                IN  /\ On(r) = s /\ f[1] = name[r] /\ name[r] # <<>> /\ name[r] \in used[s]
                    /\ at[r] \in {"draining", "locating", "done"}
FilesInv == \A s \in Sessions : \A f \in files[s] : FileOf(f, s)

\* A request that is over and has written nothing.
Filed(r) == \E s \in Sessions : \E f \in files[s] : f[2] = r
Spent(r) == at[r] = "done" /\ ~Filed(r)
Namesakes(q, r) == q # r /\ On(q) = On(r) /\ name[q] = name[r] /\ name[q] # <<>>
PairsInv == \A q, r \in Requests : Namesakes(q, r) =>
              {q, r} \subseteq crowded \/ Spent(q) \/ Spent(r)

SnapsInv == NumbersInv /\ WritesInv /\ FilesInv /\ PairsInv

LEMMA CountersGrow ==
  ASSUME Base, [Next]_vars PROVE \A s \in Sessions : counter[s] <= counter'[s]
<1>0. counter \in [Sessions -> 0 .. MaxRequests] /\ MaxRequests \in Nat
  BY Constants DEF Base, TypeInv, WriterTyped
<1>1. ASSUME NEW r \in Requests, Arrive(r) PROVE \A s \in Sessions : counter[s] <= counter'[s]
  <2>1. PICK a \in Asks : Arrives(r, a)
    BY <1>1, ArriveMoves
  <2>2. counter' = counter \/ counter' = [counter EXCEPT ![a.on] = counter[a.on] + 1]
    BY <2>1 DEF Arrives, Enters, Named
  <2> QED BY <1>0, <2>2
<1>2. ASSUME NEW r \in Requests, Resume(r) PROVE counter' = counter
  BY <1>2, ResumeMoves DEF Moves
<1>3. ASSUME Others PROVE counter' = counter
  BY <1>3, OthersAside DEF Others, Aside, writer
<1> QED BY <1>0, <1>1, <1>2, <1>3, Steps

\* The name and the number that an arrival brings.
LEMMA NewName ==
  ASSUME Base, NumbersInv, NoLookalike, NEW r \in Requests, at[r] = "out", NEW a \in Asks,
         ask' = [ask EXCEPT ![r] = a], Named(r, a)
  PROVE  /\ NumberedOrAsked(r)'
         /\ \A q \in Requests : On(q) = a.on /\ name[q] # <<>> /\ name[q] \in used[a.on] =>
              name[q] # name'[r]
<1>0. /\ WriterTyped /\ HandlersTyped /\ a.on \in Sessions
      /\ counter[a.on] \in Nat
  BY Constants DEF Base, TypeInv, WriterTyped
<1>1. On(r)' = a.on /\ name'[r] = NameFor(a.on, a.name)
  BY <1>0 DEF Named, WriterTyped, HandlersTyped, On
<1>2. CASE a.name = <<>>
  <2> DEFINE k == counter[a.on] + 1
  <2>1. name'[r] = <<"snap-", k>> /\ counter'[a.on] = k /\ k \in 1 .. k
    BY <1>0, <1>1, <1>2 DEF NameFor, Named, WriterTyped
  <2>2. NumberedOrAsked(r)'
    BY <1>1, <2>1 DEF NumberedOrAsked
  <2>3. ASSUME NEW q \in Requests, On(q) = a.on, name[q] # <<>> PROVE name[q] # <<"snap-", k>>
    <3>1. CASE Head(name[q]) # "snap-"
      <4>1. Head(<<"snap-", k>>) = "snap-"
        <5>1. "snap-" \in NamePart /\ k \in NamePart
          BY <1>0 DEF NamePart
        <5> HIDE DEF k
        <5> QED BY <5>1, PairIsSeq
      <4> QED BY <3>1, <4>1
    <3>2. CASE \E j \in 1 .. counter[On(q)] : name[q] = <<"snap-", j>>
      <4>1. PICK j \in 1 .. counter[On(q)] : name[q] = <<"snap-", j>>
        BY <3>2
      <4>2. j # k
        BY <1>0, <2>3, <4>1
      <4> HIDE DEF k
      <4> QED BY <4>1, <4>2
    <3> QED BY <2>3, <3>1, <3>2 DEF NumbersInv, NumberedOrAsked
  <2> QED BY <2>1, <2>2, <2>3
<1>3. CASE a.name # <<>>
  <2>1. /\ NameFor(a.on, a.name) \notin used[a.on]
        /\ Head(NameFor(a.on, a.name)) = Head(a.name)
    BY <1>3, NameIsFree
  <2>2. Head(a.name) # "snap-"
    BY <1>3 DEF NoLookalike
  <2> QED BY <1>1, <2>1, <2>2 DEF NumberedOrAsked
<1> QED BY <1>2, <1>3

LEMMA NumbersStay ==
  ASSUME Base, NumbersInv, NoLookalike, [Next]_vars PROVE NumbersInv'
<1> SUFFICES ASSUME NEW q \in Requests, name'[q] # <<>> PROVE NumberedOrAsked(q)'
  BY DEF NumbersInv
<1>0. WriterTyped /\ HandlersTyped
  BY DEF Base, TypeInv
<1>1. CASE at[q] = "out" /\ \E a \in Asks : Arrives(q, a)
  <2>1. PICK a \in Asks : Arrives(q, a)
    BY <1>1
  <2>2. name[q] = <<>>
    BY <1>1 DEF Base, Shape, AskedOf
  <2>3. Named(q, a)
    BY <2>1, <2>2 DEF Arrives, Enters
  <2> QED BY <1>1, <2>1, <2>3, NewName DEF Arrives
<1>2. CASE UNCHANGED <<ask[q], name[q]>>
  <2>1. On(q)' = On(q) /\ name'[q] = name[q]
    BY <1>2 DEF On
  <2>2. On(q) \in Sessions
    <3>1. at[q] # "out"
      BY <2>1 DEF Base, Shape, AskedOf
    <3> QED BY <3>1, OnSession
  <2>3. counter[On(q)] <= counter'[On(q)] /\ counter[On(q)] \in Nat /\ counter'[On(q)] \in Nat
    BY <2>2, CountersGrow, WriterStays, Constants DEF Base, TypeInv, WriterTyped
  <2>4. NumberedOrAsked(q)
    BY <2>1 DEF NumbersInv
  <2> QED BY <2>1, <2>3, <2>4 DEF NumberedOrAsked
<1>3. Moves(q) => UNCHANGED <<ask[q], name[q]>>
  BY DEF Moves
<1> QED BY <1>1, <1>2, <1>3, Fates

\* Names in use stay in use.
LEMMA UsedGrows ==
  ASSUME Base, [Next]_vars PROVE \A s \in Sessions : used[s] \subseteq used'[s]
<1>0. used \in [Sessions -> SUBSET NameOf]
  BY DEF Base, TypeInv, WriterTyped
<1>1. ASSUME NEW r \in Requests, Arrive(r) PROVE used' = used
  BY <1>1 DEF Arrive
<1>2. ASSUME NEW r \in Requests, Resume(r) PROVE \A s \in Sessions : used[s] \subseteq used'[s]
  BY <1>0, <1>2, UsesOne
<1>3. ASSUME Others PROVE used' = used
  BY <1>3, OthersAside DEF Others, Aside, writer
<1> QED BY <1>1, <1>2, <1>3, Steps

\* Files are written by handlers that are at it.
LEMMA WritesOne ==
  ASSUME Base, NEW r \in Requests, Resume(r)
  PROVE  \/ files' = files
         \/ Wrote(r) /\ files' = [files EXCEPT ![On(r)] = @ \cup {<<name[r], r>>}]
BY DEF Resume, Launched, Navigated, Gated, Undone, Acted, Reached, Regated, Shot, Wrote, Drained,
       Located, Closed, writer

LEMMA FilesFrom ==
  ASSUME Base, [Next]_vars, NEW s \in Sessions, NEW f \in files'[s], f \notin files[s]
  PROVE  \E r \in Requests : Resume(r) /\ Wrote(r) /\ s = On(r) /\ f = <<name[r], r>>
<1>1. ASSUME NEW r \in Requests, Arrive(r) PROVE files' = files
  BY <1>1 DEF Arrive
<1>2. ASSUME Others PROVE files' = files
  BY <1>2, OthersAside DEF Others, Aside, writer
<1>3. PICK r \in Requests : Resume(r) /\ files' # files
  BY <1>1, <1>2, Steps
<1>4. Wrote(r) /\ files' = [files EXCEPT ![On(r)] = @ \cup {<<name[r], r>>}]
  BY <1>3, WritesOne
<1> QED BY <1>3, <1>4 DEF Base, TypeInv, WriterTyped

LEMMA WritesStay ==
  ASSUME Base, WritesInv, [Next]_vars PROVE WritesInv'
<1> SUFFICES ASSUME NEW q \in Requests, at'[q] \in {"writing", "draining"}
             PROVE  name'[q] \in used'[On(q)']
  BY DEF WritesInv
<1>0. WriterTyped /\ HandlersTyped
  BY DEF Base, TypeInv
<1>1. CASE at[q] = "out" /\ \E a \in Asks : Arrives(q, a)
  BY <1>0, <1>1 DEF Arrives, Enters, Comes, Ends, HandlersTyped
<1>2. CASE Resume(q) /\ Moves(q)
  <2>1. name' = name /\ On(q)' = On(q) /\ On(q) \in Sessions
    BY <1>2, OnSession DEF Moves, On, Awaits
  <2>2. at[q] \in {"shooting", "writing"}
    <3>1. ASSUME NEW y, Ends(q, y) PROVE FALSE
      BY <1>0, <3>1 DEF Ends, HandlersTyped
    <3>2. ASSUME NEW x \in Awaits, Comes(q, ask[q].do, x), Follows(at[q], x)
          PROVE  at[q] \in {"shooting", "writing"}
      BY <1>0, <3>2 DEF Comes, Follows, HandlersTyped
    <3> QED BY <1>2, <3>1, <3>2 DEF Moves
  <2>3. CASE at[q] = "writing"
    <3>1. name[q] \in used[On(q)]
      BY <2>3 DEF WritesInv
    <3> QED BY <2>1, <3>1, UsedGrows
  <2>4. CASE at[q] = "shooting"
    <3>1. Shot(q)
      BY <1>2, <2>4 DEF Resume, Launched, Navigated, Gated, Undone, Acted, Reached, Regated, Wrote,
                        Drained, Located, Closed
    <3>2. ASSUME NEW y, Finish(q, y) PROVE FALSE
      BY <1>0, <3>2 DEF Finish, HandlersTyped
    <3>3. used' = [used EXCEPT ![On(q)] = @ \cup {name[q]}]
      BY <3>1, <3>2 DEF Shot
    <3> QED BY <1>0, <2>1, <3>3 DEF WriterTyped
  <2> QED BY <2>2, <2>3, <2>4
<1>3. CASE UNCHANGED <<ask[q], at[q], answer[q], taken[q], name[q]>>
  <2>1. name[q] \in used[On(q)] /\ On(q)' = On(q)
    BY <1>3 DEF WritesInv, On
  <2>2. On(q) \in Sessions
    BY <1>3, OnSession DEF Awaits
  <2> QED BY <1>3, <2>1, <2>2, UsedGrows
<1> QED BY <1>1, <1>2, <1>3, Fates

\* A handler that has written is on its last way.
LEMMA WritersEnd ==
  ASSUME Base, [Next]_vars, NEW q \in Requests, at[q] \in {"draining", "locating", "done"}
  PROVE  /\ at'[q] \in {"draining", "locating", "done"}
         /\ at[q] = "done" => at'[q] = "done"
<1>0. HandlersTyped
  BY DEF Base, TypeInv
<1>1. CASE Moves(q)
  <2>1. at[q] \in {"draining", "locating"}
    BY <1>1 DEF Moves, Awaits
  <2>2. ASSUME NEW y, Ends(q, y) PROVE at'[q] = "done"
    BY <1>0, <2>2 DEF Ends, HandlersTyped
  <2>3. ASSUME NEW x \in Awaits, Comes(q, ask[q].do, x), Follows(at[q], x)
        PROVE  at'[q] = "locating"
    <3>1. OnWay(ask[q].do, at[q]) /\ at[q] = "draining"
      BY <1>1, <2>1, <2>3 DEF Moves, Follows, Base, Shape
    <3>2. x = "locating"
      BY <2>3, <3>1 DEF Comes, Follows, OnWay
    <3> QED BY <1>0, <2>3, <3>2 DEF Comes, HandlersTyped
  <2> QED BY <1>1, <2>1, <2>2, <2>3 DEF Moves
<1>2. CASE UNCHANGED <<ask[q], at[q], answer[q], taken[q], name[q]>>
  BY <1>2
<1> QED BY <1>1, <1>2, Fates

LEMMA FilesStay ==
  ASSUME Base, WritesInv, FilesInv, [Next]_vars PROVE FilesInv'
<1> SUFFICES ASSUME NEW s \in Sessions, NEW f \in files'[s] PROVE FileOf(f, s)'
  BY DEF FilesInv
<1>0. WriterTyped /\ HandlersTyped
  BY DEF Base, TypeInv
<1>1. CASE f \in files[s]
  <2>1. FileOf(f, s) /\ f[2] \in Requests
    BY <1>0, <1>1 DEF FilesInv, WriterTyped
  <2>2. at[f[2]] # "out"
    BY <2>1 DEF FileOf
  <2>3. On(f[2])' = On(f[2]) /\ name'[f[2]] = name[f[2]]
    BY <2>1, <2>2, NamesStay DEF On
  <2>4. at'[f[2]] \in {"draining", "locating", "done"}
    BY <2>1, WritersEnd DEF FileOf
  <2>5. name[f[2]] \in used'[s]
    BY <2>1, UsedGrows DEF FileOf
  <2> QED BY <2>1, <2>3, <2>4, <2>5 DEF FileOf
<1>2. CASE f \notin files[s]
  <2>1. PICK r \in Requests : Resume(r) /\ Wrote(r) /\ s = On(r) /\ f = <<name[r], r>>
    BY <1>2, FilesFrom
  <2>2. at[r] = "writing"
    BY <2>1 DEF Wrote
  <2>3. name[r] \in used[s] /\ name[r] # <<>>
    BY <2>1, <2>2 DEF WritesInv, Base, Naming
  <2>4. On(r)' = On(r) /\ name' = name
    BY <2>1, ResumeMoves DEF Moves, On
  <2>5. at'[r] \in {"draining", "locating", "done"}
    BY <1>0, <2>1 DEF Wrote, EndSnap, Check, Go, Finish, HandlersTyped
  <2>6. f[1] = name[r] /\ f[2] = r
    BY <2>1
  <2>7. name[r] \in used'[s]
    BY <2>3, UsedGrows
  <2> QED BY <2>1, <2>3, <2>4, <2>5, <2>6, <2>7 DEF FileOf
<1> QED BY <1>1, <1>2

LEMMA SpentStays ==
  ASSUME Base, [Next]_vars, NEW q \in Requests, Spent(q) PROVE Spent(q)'
<1>1. at'[q] = "done"
  BY WritersEnd DEF Spent
<1>2. ASSUME NEW s \in Sessions, NEW f \in files'[s], f[2] = q PROVE FALSE
  <2>1. f \notin files[s]
    BY <1>2 DEF Spent, Filed
  <2>2. PICK r \in Requests : Wrote(r) /\ f = <<name[r], r>>
    BY <2>1, FilesFrom
  <2>3. r = q
    BY <1>2, <2>2
  <2> QED BY <2>2, <2>3 DEF Wrote, Spent
<1> QED BY <1>1, <1>2 DEF Spent, Filed

LEMMA PairsStay ==
  ASSUME Base, SnapsInv, NoLookalike, [Next]_vars PROVE PairsInv'
<1>0. HandlersTyped /\ WriterTyped /\ crowded \subseteq crowded'
  <2>1. ASSUME NEW r \in Requests, Arrive(r) PROVE crowded \subseteq crowded'
    BY <2>1 DEF Arrive
  <2>2. ASSUME NEW r \in Requests, Resume(r) PROVE crowded' = crowded
    BY <2>2, ResumeMoves DEF Moves
  <2>3. ASSUME Others PROVE crowded' = crowded
    BY <2>3, OthersAside DEF Others, Aside
  <2> QED BY <2>1, <2>2, <2>3, Steps DEF Base, TypeInv
\* A pair of which neither arrives in this step.
<1>1. ASSUME NEW q \in Requests, NEW r \in Requests, Namesakes(q, r)',
             at[q] # "out", at[r] # "out"
      PROVE  {q, r} \subseteq crowded' \/ Spent(q)' \/ Spent(r)'
  <2>1. Namesakes(q, r)
    BY <1>1, NamesStay DEF Namesakes, On
  <2> QED BY <1>0, <2>1, SpentStays DEF SnapsInv, PairsInv
\* A pair of one that arrives and one that has been there.
<1>2. ASSUME NEW q \in Requests, NEW r \in Requests, Namesakes(q, r)', at[q] # "out",
             at[r] = "out"
      PROVE  {q, r} \subseteq crowded' \/ Spent(q)' \/ Spent(r)'
  <2>1. name[r] = <<>> /\ name'[r] # <<>> /\ name'[r] = name'[q] /\ On(q)' = On(r)'
    BY <1>2, NamesStay DEF Namesakes, Base, Shape, AskedOf
  <2>2. Arrive(r) /\ \E a \in Asks : Arrives(r, a)
    BY <1>2, <2>1, Fates DEF Moves
  <2>3. PICK a \in Asks : Arrives(r, a)
    BY <2>2
  <2>4. Named(r, a) /\ ask' = [ask EXCEPT ![r] = a]
    BY <2>1, <2>3 DEF Arrives, Enters
  <2>5. name[q] = name'[r] /\ name[q] # <<>> /\ On(q) = a.on
    <3>1. On(r)' = a.on
      BY <1>0, <2>4 DEF On, HandlersTyped
    <3>2. name'[q] = name[q] /\ On(q)' = On(q)
      BY <1>2, NamesStay DEF On
    <3> QED BY <2>1, <3>1, <3>2
  <2>6. CASE q \in Pending
    BY <2>2, <2>6 DEF Arrive
  <2>7. CASE q \notin Pending
    <3>1. at[q] = "done"
      BY <1>0, <1>2, <2>7 DEF Pending, HandlersTyped
    <3>2. ~Filed(q)
      <4> SUFFICES ASSUME NEW s \in Sessions, NEW f \in files[s], f[2] = q PROVE FALSE
        BY DEF Filed
      <4>1. On(q) = s /\ name[q] \in used[s]
        BY DEF SnapsInv, FilesInv, FileOf
      <4> QED BY <1>2, <2>4, <2>5, <4>1, NewName DEF SnapsInv
    <3>3. Spent(q)
      BY <3>1, <3>2 DEF Spent
    <3> QED BY <3>3, SpentStays
  <2> QED BY <2>6, <2>7
\* Two do not arrive at once.
<1>3. ASSUME NEW q \in Requests, NEW r \in Requests, Namesakes(q, r)', at[q] = "out",
             at[r] = "out"
      PROVE  FALSE
  <2>1. name[q] = <<>> /\ name[r] = <<>> /\ name'[q] # <<>> /\ name'[r] # <<>> /\ q # r
    BY <1>3 DEF Namesakes, Base, Shape, AskedOf
  <2>2. Arrive(q) /\ Arrive(r)
    BY <1>3, <2>1, Fates DEF Moves
  <2> QED BY <2>1, <2>2 DEF Arrive
<1>4. \A q, r : Namesakes(q, r)' => Namesakes(r, q)'
  BY DEF Namesakes
<1> SUFFICES ASSUME NEW q \in Requests, NEW r \in Requests, Namesakes(q, r)'
             PROVE  {q, r} \subseteq crowded' \/ Spent(q)' \/ Spent(r)'
  BY DEF PairsInv
<1>5. CASE at[q] # "out" /\ at[r] # "out"
  BY <1>1, <1>5
<1>6. CASE at[q] # "out" /\ at[r] = "out"
  BY <1>2, <1>6
<1>7. CASE at[q] = "out" /\ at[r] # "out"
  BY <1>2, <1>4, <1>7
<1>8. CASE at[q] = "out" /\ at[r] = "out"
  BY <1>3, <1>8
<1> QED BY <1>5, <1>6, <1>7, <1>8

LEMMA SnapsAlways == NoLookalike => (Spec => [](Base /\ SnapsInv))
<1> SUFFICES ASSUME NoLookalike PROVE Spec => [](Base /\ SnapsInv)
  OBVIOUS
<1>1. Init => SnapsInv
  BY DEF Init, SnapsInv, NumbersInv, WritesInv, FilesInv, PairsInv, Namesakes
<1>2. Base /\ SnapsInv /\ [Next]_vars => (Base /\ SnapsInv)'
  BY BaseStays, NumbersStay, WritesStay, FilesStay, PairsStay DEF SnapsInv
<1> QED BY <1>1, <1>2, InitBase, PTL DEF Spec

\* "A repeated name becomes <name>-2, never an overwrite" (CONTRACTS.md, SnapWriter): if
\* nobody asks for a name that looks like a number, two requests write to one file only if
\* other requests were at work beside both.
THEOREM SnapsAreKept == NoLookalike => (Spec => []SnapsKept)
<1> SUFFICES ASSUME NoLookalike PROVE Spec => []SnapsKept
  OBVIOUS
<1>1. Base /\ SnapsInv => SnapsKept
  <2> SUFFICES ASSUME Base, SnapsInv, NEW s \in Sessions, NEW f \in files[s], NEW g \in files[s],
                      f[1] = g[1]
               PROVE  f = g \/ {f[2], g[2]} \subseteq crowded
    BY DEF SnapsKept
  <2>1. f \in NameOf \X Requests /\ g \in NameOf \X Requests
    BY DEF Base, TypeInv, WriterTyped
  <2>2. CASE f[2] = g[2]
    BY <2>1, <2>2
  <2>3. CASE f[2] # g[2]
    <3>1. FileOf(f, s) /\ FileOf(g, s)
      BY DEF SnapsInv, FilesInv
    <3>2. Namesakes(f[2], g[2])
      BY <2>3, <3>1 DEF FileOf, Namesakes
    <3>3. ~Spent(f[2]) /\ ~Spent(g[2])
      BY DEF Spent, Filed
    <3> QED BY <2>1, <3>2, <3>3 DEF SnapsInv, PairsInv
  <2> QED BY <2>2, <2>3
<1> QED BY <1>1, SnapsAlways, PTL
================================================================================
