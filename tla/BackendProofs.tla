--------------------------- MODULE BackendProofs ----------------------------
(***************************************************************************)
(* What holds of the services the broker has the work done by: the         *)
(* appliance that generates text, for any set of connections and any       *)
(* number of pieces, and the image jobs of an adapter, for any number of   *)
(* polls.                                                                  *)
(*                                                                         *)
(* MetalInv is inductive, and with it every step of MetalServer is a step  *)
(* of GenerationService or none that it sees.  It says what each thread,   *)
(* client and queue of a connection may hold together; above all that the  *)
(* pieces in the queue of events and on the wire are exactly the ones made *)
(* and not given yet, and that what closes a reply comes once, behind all  *)
(* of them.                                                                *)
(*                                                                         *)
(* ImageInv is inductive: a cancellation under way is for a job the server *)
(* has been sent, and a job that runs on is one whose cancellation was     *)
(* lost or came first.                                                     *)
(***************************************************************************)
EXTENDS MetalServer, AdapterImages, TLAPS

-----------------------------------------------------------------------------
(* Replies from the appliance: the invariant.                              *)

ClientAt == {"idle", "hello", "asked", "complete", "broken"}
ThreadAt == {"none", "hello", "wait", "queue", "relay"}
Requested == {"", "hello", "http", "status", "generate"}
Event == {"piece", "reason", "done", "error"}
Frame == Event \cup {"ready", "loading", "status"}

MetalTyped ==
  /\ client \in [Conn -> ClientAt] /\ kind \in [Conn -> Kinds] /\ sent \in [Conn -> Requested]
  /\ thread \in [Conn -> ThreadAt] /\ down \in [Conn -> Seq(Frame)] /\ replies \in [Conn -> Seq(Event)]
  /\ listening \in [Conn -> BOOLEAN] /\ made \in [Conn -> Nat] /\ given \in [Conn -> Nat]
  /\ jobq \in Seq(Conn) /\ cur \in Conn \cup {NoConn} /\ left \in Nat

\* The positions of the pieces of text among frames or events are those f
\* lists, so there are n of them.
Holds(s, n) ==
  \E f \in [1..n -> 1..Len(s)] :
    /\ \A i, j \in 1..n : i < j => f[i] < f[j]
    /\ \A k \in 1..Len(s) : s[k] = "piece" <=> \E i \in 1..n : f[i] = k

\* A frame is among them, and nothing follows the end of the reply.
Has(s, f) == \E k \in 1..Len(s) : s[k] = f
Closes(s) == \A k \in 1..Len(s) : s[k] = "done" => k = Len(s)

Jobs == {jobq[k] : k \in 1..Len(jobq)}
Working(c) == c = cur \/ c \in Jobs
Unasked == {"hello", "wait", "queue"}

\* A connection takes its way once: nothing is left of it before it connects,
\* and it becomes a job only from the queue, with a client that has asked.
OnItsWay(c) ==
  /\ client[c] = "idle" =>
       thread[c] = "none" /\ sent[c] = "" /\ down[c] = <<>> /\ replies[c] = <<>> /\ ~Working(c)
  /\ thread[c] \in {"queue", "relay"} \/ Working(c) \/ sent[c] = "generate" =>
       Generates(c) /\ client[c] \notin {"idle", "hello"}
  /\ sent[c] \in {"status", "http"} => ~Generates(c)
  /\ thread[c] \in Unasked => ~Working(c) /\ replies[c] = <<>>
  /\ thread[c] \in Unasked \/ c \in Jobs \/ client[c] = "idle" \/ ~Generates(c) => made[c] = 0
  /\ listening[c] <=> thread[c] = "relay"

\* The pieces the broker has, the p on their way to it and the q its thread
\* has not taken yet are those produced, unless the thread gave up.
Balance(c, p, q) ==
  /\ Holds(down[c], p) /\ Holds(replies[c], q) /\ given[c] + p <= made[c]
  /\ thread[c] = "relay" => made[c] = given[c] + p + q
  /\ Has(down[c], "done") => /\ made[c] = given[c] + p
                             /\ thread[c] = "none" /\ client[c] \notin {"idle", "hello"}

Counted(c) == \E p, q \in Nat : Balance(c, p, q)

\* The end of a reply is the last of it.
InOrder(c) ==
  /\ Closes(down[c]) /\ Closes(replies[c])
  /\ Generates(c) => ~Has(down[c], "status")
  /\ Has(replies[c], "done") => ~Working(c)

JobsOnce ==
  /\ \A i, j \in 1..Len(jobq) : jobq[i] = jobq[j] => i = j
  /\ cur \notin Jobs
  /\ cur # NoConn => made[cur] + left <= MaxTokens

ConnFits(c) == OnItsWay(c) /\ Counted(c) /\ InOrder(c)

MetalInv == MetalTyped /\ JobsOnce /\ \A c \in Conn : ConnFits(c)

-----------------------------------------------------------------------------
(* Frames and events in their queues.                                      *)

SamePieces(s, t) == \A p \in Nat : Holds(s, p) => Holds(t, p)
GainsPiece(s, t) == \A p \in Nat : Holds(s, p) => Holds(t, p + 1)
LosesPiece(s, t) == \A p \in Nat : Holds(s, p) => \E r \in Nat : p = r + 1 /\ Holds(t, r)

\* A connection before its first frame.
LEMMA HoldsNothing ==
  /\ Holds(<<>>, 0)
  /\ \A p \in Nat : Holds(<<>>, p) => p = 0
<1>1. Len(<<>>) = 0 /\ \A k : k \notin 1..0
  BY SMT
<1>2. Holds(<<>>, 0)
  <2>1. [i \in 1..0 |-> i] \in [1..0 -> 1..Len(<<>>)]
    BY Zenon, <1>1
  <2> QED
    BY Zenon, <1>1, <2>1 DEF Holds
<1>3. ASSUME NEW p \in Nat, Holds(<<>>, p) PROVE p = 0
  <2>1. PICK f \in [1..p -> 1..0] : TRUE
    BY Zenon, <1>1, <1>3 DEF Holds
  <2>2. 1 \notin 1..p
    BY Zenon, <1>1, <2>1
  <2> QED
    BY <2>2, SMT
<1> QED
  BY Zenon, <1>2, <1>3

\* write_payload, replies.send: a frame comes behind the others, and counts if
\* it is a piece.
LEMMA PiecesAppend ==
  ASSUME NEW S, NEW s \in Seq(S), NEW e \in S
  PROVE  /\ Append(s, e) \in Seq(S)
         /\ e = "piece" => GainsPiece(s, Append(s, e))
         /\ e # "piece" => SamePieces(s, Append(s, e))
<1> DEFINE t == Append(s, e)
           n == Len(s) + 1
<1>1. Len(s) \in Nat /\ t \in Seq(S) /\ Len(t) = n /\ t[n] = e /\ \A k \in 1..Len(s) : t[k] = s[k]
  BY SMT
<1>2. (\A k : k \in 1..n <=> k \in 1..Len(s) \/ k = n) /\ n \notin 1..Len(s)
      /\ \A k \in 1..Len(s) : k < n
  BY <1>1, SMT
<1> HIDE DEF t, n
<1>3. ASSUME NEW p \in Nat, Holds(s, p), e = "piece" PROVE Holds(t, p + 1)
  <2>1. PICK f \in [1..p -> 1..Len(s)] :
          /\ \A i, j \in 1..p : i < j => f[i] < f[j]
          /\ \A k \in 1..Len(s) : s[k] = "piece" <=> \E i \in 1..p : f[i] = k
    BY Zenon, <1>3 DEF Holds
  <2> DEFINE g == [i \in 1..(p + 1) |-> IF i = p + 1 THEN n ELSE f[i]]
  <2>2. /\ \A i : i \in 1..(p + 1) <=> i \in 1..p \/ i = p + 1
        /\ p + 1 \notin 1..p
        /\ \A i \in 1..p : ~(p + 1 < i) /\ ~(p + 1 < p + 1)
    BY SMT
  <2>3. g[p + 1] = n /\ \A i \in 1..p : g[i] = f[i] /\ f[i] \in 1..Len(s)
    BY Zenon, <2>2
  <2>4. g \in [1..(p + 1) -> 1..n]
    BY Zenon, <1>2, <2>2
  <2> HIDE DEF g
  <2>5. ASSUME NEW i \in 1..(p + 1), NEW j \in 1..(p + 1), i < j PROVE g[i] < g[j]
    <3>1. i \in 1..p
      BY <2>5, SMT
    <3>2. CASE j \in 1..p
      BY Zenon, <3>1, <3>2, <2>1, <2>3, <2>5
    <3>3. CASE j = p + 1
      BY Zenon, <3>1, <3>3, <2>3, <1>2
    <3> QED
      BY Zenon, <3>2, <3>3, <2>2
  <2>6. ASSUME NEW k \in 1..n PROVE t[k] = "piece" <=> \E i \in 1..(p + 1) : g[i] = k
    <3>1. CASE k = n
      BY Zenon, <3>1, <1>1, <1>3, <2>2, <2>3
    <3>2. CASE k \in 1..Len(s)
      <4>1. t[k] = "piece" <=> \E i \in 1..p : f[i] = k
        BY Zenon, <3>2, <1>1, <2>1
      <4>2. k # n
        BY Zenon, <3>2, <1>2
      <4> QED
        BY Zenon, <4>1, <4>2, <2>2, <2>3
    <3> QED
      BY Zenon, <3>1, <3>2, <1>2
  <2> QED
    BY Zenon, <1>1, <2>4, <2>5, <2>6 DEF Holds
<1>4. ASSUME NEW p \in Nat, Holds(s, p), e # "piece" PROVE Holds(t, p)
  <2>1. PICK f \in [1..p -> 1..Len(s)] :
          /\ \A i, j \in 1..p : i < j => f[i] < f[j]
          /\ \A k \in 1..Len(s) : s[k] = "piece" <=> \E i \in 1..p : f[i] = k
    BY Zenon, <1>4 DEF Holds
  <2>2. f \in [1..p -> 1..n] /\ \A i \in 1..p : f[i] # n
    BY Zenon, <1>2
  <2>3. ASSUME NEW k \in 1..n PROVE t[k] = "piece" <=> \E i \in 1..p : f[i] = k
    <3>1. CASE k = n
      BY Zenon, <3>1, <1>1, <1>4, <2>2
    <3>2. CASE k \in 1..Len(s)
      BY Zenon, <3>2, <1>1, <2>1
    <3> QED
      BY Zenon, <3>1, <3>2, <1>2
  <2> QED
    BY Zenon, <1>1, <2>1, <2>2, <2>3 DEF Holds
<1> QED
  BY Zenon, <1>1, <1>3, <1>4 DEF t, GainsPiece, SamePieces

\* read_frame, recv: the oldest frame goes, and counts if it was a piece.
LEMMA PiecesTail ==
  ASSUME NEW S, NEW s \in Seq(S), s # <<>>
  PROVE  /\ Tail(s) \in Seq(S) /\ Head(s) \in S
         /\ Head(s) = "piece" => LosesPiece(s, Tail(s))
         /\ Head(s) # "piece" => SamePieces(s, Tail(s))
<1> DEFINE t == Tail(s)
<1>1. Len(s) \in Nat /\ Len(t) \in Nat /\ Len(s) = Len(t) + 1 /\ t \in Seq(S) /\ Head(s) \in S
      /\ Head(s) = s[1] /\ 1 \in 1..Len(s) /\ \A k \in 1..Len(t) : t[k] = s[k+1]
  BY SMT
<1> HIDE DEF t
<1>2. PICK n \in Nat : n = Len(t) /\ n + 1 = Len(s)
  BY Zenon, <1>1
<1>3. ASSUME NEW p \in Nat, Holds(s, p), Head(s) = "piece"
      PROVE  \E r \in Nat : p = r + 1 /\ Holds(t, r)
  <2>1. PICK f \in [1..p -> 1..(n + 1)] :
          /\ \A i, j \in 1..p : i < j => f[i] < f[j]
          /\ \A k \in 1..(n + 1) : s[k] = "piece" <=> \E i \in 1..p : f[i] = k
    BY Zenon, <1>2, <1>3 DEF Holds
  <2>2. PICK a \in 1..p : f[a] = 1
    BY Zenon, <1>1, <1>2, <1>3, <2>1
  <2>3. 1 \in 1..p /\ (a = 1 \/ 1 < a)
    BY SMT
  <2>4. f[1] = 1
    <3>1. 1 < a => f[1] < 1
      BY Zenon, <2>1, <2>2, <2>3
    <3>2. f[1] \in 1..(n + 1)
      BY Zenon, <2>3
    <3>3. ~(1 < a)
      BY <3>1, <3>2, SMT
    <3> QED
      BY Zenon, <3>3, <2>2, <2>3
  <2>5. PICK r \in Nat : p = r + 1
    <3>1. p - 1 \in Nat /\ p = (p - 1) + 1
      BY <2>3, SMT
    <3> QED
      BY Zenon, <3>1
  <2> DEFINE g == [i \in 1..r |-> f[i + 1] - 1]
  <2>6. ASSUME NEW i \in 1..r
        PROVE  i + 1 \in 1..p /\ f[i + 1] \in 1..(n + 1) /\ f[i + 1] - 1 \in 1..n
    <3>1. i + 1 \in 1..p /\ 1 < i + 1
      BY <2>5, SMT
    <3>2. f[i + 1] \in 1..(n + 1) /\ 1 < f[i + 1]
      BY Zenon, <2>1, <2>3, <2>4, <3>1
    <3>3. f[i + 1] - 1 \in 1..n
      BY <3>2, SMT
    <3> QED
      BY Zenon, <3>1, <3>2, <3>3
  <2>7. g \in [1..r -> 1..n] /\ \A i \in 1..r : g[i] = f[i + 1] - 1
    BY Zenon, <2>6
  <2> HIDE DEF g
  <2>8. ASSUME NEW i \in 1..r, NEW j \in 1..r, i < j PROVE g[i] < g[j]
    <3>1. i + 1 < j + 1
      BY <2>8, SMT
    <3>2. f[i + 1] < f[j + 1] /\ f[i + 1] \in 1..(n + 1) /\ f[j + 1] \in 1..(n + 1)
      BY Zenon, <3>1, <2>1, <2>6
    <3>3. f[i + 1] - 1 < f[j + 1] - 1
      BY <3>2, SMT
    <3> QED
      BY Zenon, <3>3, <2>7
  <2>9. ASSUME NEW k \in 1..n PROVE t[k] = "piece" <=> \E i \in 1..r : g[i] = k
    <3>1. k + 1 \in 1..(n + 1) /\ k + 1 # 1 /\ (k + 1) - 1 = k
      BY SMT
    <3>2. t[k] = "piece" <=> \E i \in 1..p : f[i] = k + 1
      BY Zenon, <3>1, <1>1, <1>2, <2>1
    <3>3. ASSUME NEW i \in 1..p, f[i] = k + 1 PROVE \E j \in 1..r : g[j] = k
      <4>1. i # 1
        BY Zenon, <3>1, <3>3, <2>4
      <4>2. i - 1 \in 1..r /\ (i - 1) + 1 = i
        BY <4>1, <2>5, SMT
      <4> QED
        BY Zenon, <4>2, <3>1, <3>3, <2>7
    <3>4. ASSUME NEW j \in 1..r, g[j] = k PROVE \E i \in 1..p : f[i] = k + 1
      <4>1. PICK x \in 1..(n + 1) : x = f[j + 1] /\ x - 1 = k
        BY Zenon, <3>4, <2>6, <2>7
      <4>2. x - 1 = k
        BY Zenon, <4>1
      <4>3. x = k + 1
        BY <4>2, SMT
      <4> QED
        BY Zenon, <4>1, <4>3, <2>6
    <3> QED
      BY Zenon, <3>2, <3>3, <3>4
  <2> QED
    BY Zenon, <1>2, <2>5, <2>7, <2>8, <2>9 DEF Holds
<1>4. ASSUME NEW p \in Nat, Holds(s, p), Head(s) # "piece" PROVE Holds(t, p)
  <2>1. PICK f \in [1..p -> 1..(n + 1)] :
          /\ \A i, j \in 1..p : i < j => f[i] < f[j]
          /\ \A k \in 1..(n + 1) : s[k] = "piece" <=> \E i \in 1..p : f[i] = k
    BY Zenon, <1>2, <1>4 DEF Holds
  <2>2. ASSUME NEW i \in 1..p PROVE f[i] \in 1..(n + 1) /\ f[i] - 1 \in 1..n
    <3>1. f[i] \in 1..(n + 1) /\ f[i] # 1
      BY Zenon, <1>1, <1>2, <1>4, <2>1
    <3>2. f[i] - 1 \in 1..n
      BY <3>1, SMT
    <3> QED
      BY Zenon, <3>1, <3>2
  <2> DEFINE g == [i \in 1..p |-> f[i] - 1]
  <2>3. g \in [1..p -> 1..n] /\ \A i \in 1..p : g[i] = f[i] - 1
    BY Zenon, <2>2
  <2> HIDE DEF g
  <2>4. ASSUME NEW i \in 1..p, NEW j \in 1..p, i < j PROVE g[i] < g[j]
    <3>1. f[i] < f[j] /\ f[i] \in 1..(n + 1) /\ f[j] \in 1..(n + 1)
      BY Zenon, <2>1, <2>2, <2>4
    <3>2. f[i] - 1 < f[j] - 1
      BY <3>1, SMT
    <3> QED
      BY Zenon, <3>2, <2>3
  <2>5. ASSUME NEW k \in 1..n PROVE t[k] = "piece" <=> \E i \in 1..p : g[i] = k
    <3>1. k + 1 \in 1..(n + 1) /\ (k + 1) - 1 = k
      BY SMT
    <3>2. t[k] = "piece" <=> \E i \in 1..p : f[i] = k + 1
      BY Zenon, <3>1, <1>1, <1>2, <2>1
    <3>3. ASSUME NEW i \in 1..p PROVE f[i] = k + 1 <=> g[i] = k
      <4>1. f[i] \in 1..(n + 1)
        BY Zenon, <2>2
      <4>2. f[i] = k + 1 <=> f[i] - 1 = k
        BY <4>1, SMT
      <4> QED
        BY Zenon, <4>2, <2>3
    <3> QED
      BY Zenon, <3>2, <3>3
  <2> QED
    BY Zenon, <1>2, <2>3, <2>4, <2>5 DEF Holds
<1> QED
  BY Zenon, <1>1, <1>3, <1>4 DEF t, LosesPiece, SamePieces

\* write_payload, replies.send: what is among the frames after one more, and
\* that nothing comes behind the end as long as there was none.
LEMMA HasAppend ==
  ASSUME NEW S, NEW s \in Seq(S), NEW f \in S
  PROVE  /\ \A x : Has(Append(s, f), x) <=> Has(s, x) \/ x = f
         /\ ~Has(s, "done") => Closes(Append(s, f))
<1> DEFINE t == Append(s, f)
           n == Len(s) + 1
<1>1. Len(s) \in Nat /\ t \in Seq(S) /\ Len(t) = n /\ t[n] = f /\ \A k \in 1..Len(s) : t[k] = s[k]
  BY SMT
<1>2. \A k : k \in 1..n <=> k \in 1..Len(s) \/ k = n
  BY <1>1, SMT
<1> HIDE DEF t, n
<1>3. \A x : Has(t, x) <=> Has(s, x) \/ x = f
  BY Zenon, <1>1, <1>2 DEF Has
<1>4. ~Has(s, "done") => Closes(t)
  BY Zenon, <1>1, <1>2 DEF Has, Closes
<1> QED
  BY Zenon, <1>3, <1>4 DEF t

\* read_frame, recv: what is among the frames once the oldest is taken; when
\* the end is taken nothing is left.
LEMMA HasTail ==
  ASSUME NEW S, NEW s \in Seq(S), s # <<>>
  PROVE  /\ \A x : Has(s, x) <=> Has(Tail(s), x) \/ x = Head(s)
         /\ Closes(s) => Closes(Tail(s))
         /\ Closes(s) /\ Head(s) = "done" => Tail(s) = <<>>
<1> DEFINE t == Tail(s)
<1>1. Len(s) \in Nat /\ Len(t) \in Nat /\ Len(s) = Len(t) + 1 /\ t \in Seq(S) /\ Head(s) \in S
      /\ Head(s) = s[1] /\ 1 \in 1..Len(s) /\ \A k \in 1..Len(t) : t[k] = s[k+1]
  BY SMT
<1> HIDE DEF t
<1>2. Len(t) = 0 => t = <<>>
  <2>1. t \in Seq(S)
    BY Zenon, <1>1
  <2> QED
    BY <2>1, SMT
<1>3. \A k \in 1..Len(t) : k + 1 \in 1..Len(s)
  BY <1>1, SMT
<1>4. \A k \in 1..Len(s) : k = 1 \/ \E j \in 1..Len(t) : k = j + 1
  <2> SUFFICES ASSUME NEW k \in 1..Len(s), k # 1 PROVE k - 1 \in 1..Len(t) /\ k = (k - 1) + 1
    BY Zenon
  <2> QED
    BY <1>1, SMT
<1>5. \A x : Has(s, x) <=> Has(t, x) \/ x = Head(s)
  BY Zenon, <1>1, <1>3, <1>4 DEF Has
<1>6. ASSUME Closes(s) PROVE Closes(t)
  <2> SUFFICES ASSUME NEW k \in 1..Len(t), t[k] = "done" PROVE k = Len(t)
    BY Zenon DEF Closes
  <2>1. k + 1 = Len(s)
    BY Zenon, <1>1, <1>3, <1>6 DEF Closes
  <2> QED
    BY <2>1, <1>1, SMT
<1>7. ASSUME Closes(s), Head(s) = "done" PROVE t = <<>>
  <2>1. 1 = Len(s)
    BY Zenon, <1>1, <1>7 DEF Closes
  <2> QED
    BY <2>1, <1>1, <1>2, SMT
<1> QED
  BY Zenon, <1>5, <1>6, <1>7 DEF t

\* A connection before its first frame.
LEMMA HasNothing ==
  /\ \A x : ~Has(<<>>, x)
  /\ Closes(<<>>)
BY SMT DEF Has, Closes

-----------------------------------------------------------------------------
(* One connection at a time.                                               *)

\* g is f but for its value at c, which is again in S.
Moved(f, g, c, S) == g \in [Conn -> S] /\ \A k \in Conn : k # c => g[k] = f[k]

ConnMoves(c) ==
  /\ kind' = kind
  /\ Moved(client, client', c, ClientAt) /\ Moved(sent, sent', c, Requested)
  /\ Moved(thread, thread', c, ThreadAt) /\ Moved(down, down', c, Seq(Frame))
  /\ Moved(replies, replies', c, Seq(Event)) /\ Moved(listening, listening', c, BOOLEAN)
  /\ Moved(made, made', c, Nat) /\ Moved(given, given', c, Nat)

QueueKept == jobq' = jobq /\ cur' = cur /\ left' = left

\* What a step leaves alone.
LEMMA KeepMoves ==
  ASSUME NEW S, NEW f \in [Conn -> S], NEW c, NEW g, g = f
  PROVE  Moved(f, g, c, S) /\ g[c] = f[c]
BY Zenon DEF Moved

\* Every step is about one connection: for the others the invariant says what
\* it said before, if the queue of jobs holds them as before.
LEMMA OneConnection ==
  ASSUME MetalInv, NEW c \in Conn, ConnMoves(c), ConnFits(c)', JobsOnce',
         jobq' \in Seq(Conn), cur' \in Conn \cup {NoConn}, left' \in Nat,
         \A k \in Conn : k # c => (Working(k)' <=> Working(k)) /\ (k \in Jobs' <=> k \in Jobs)
  PROVE  MetalInv'
<1>1. MetalTyped'
  BY Zenon DEF MetalInv, MetalTyped, ConnMoves, Moved
<1>2. ASSUME NEW k \in Conn, k # c PROVE ConnFits(k)'
  <2>1. /\ client'[k] = client[k] /\ sent'[k] = sent[k] /\ thread'[k] = thread[k]
        /\ down'[k] = down[k] /\ replies'[k] = replies[k] /\ listening'[k] = listening[k]
        /\ made'[k] = made[k] /\ given'[k] = given[k] /\ kind'[k] = kind[k]
    BY Zenon, <1>2 DEF ConnMoves, Moved
  <2>2. OnItsWay(k) /\ Counted(k) /\ InOrder(k) /\ (Working(k)' <=> Working(k)) /\ (k \in Jobs' <=> k \in Jobs)
    BY Zenon, <1>2 DEF MetalInv, ConnFits
  <2>3. OnItsWay(k)'
    BY Zenon, <2>1, <2>2 DEF OnItsWay, Generates
  <2>4. Counted(k)'
    BY Zenon, <2>1, <2>2 DEF Counted, Balance
  <2>5. InOrder(k)'
    BY Zenon, <2>1, <2>2 DEF InOrder, Generates
  <2> QED
    BY Zenon, <2>3, <2>4, <2>5 DEF ConnFits
<1> QED
  BY Zenon, <1>1, <1>2 DEF MetalInv

\* A step of a client or a thread that leaves the queue of jobs alone.
LEMMA ConnStep ==
  ASSUME MetalInv, NEW c \in Conn, ConnMoves(c), QueueKept, made' = made, ConnFits(c)'
  PROVE  MetalInv'
<1>1. Jobs' = Jobs /\ \A k : Working(k)' <=> Working(k)
  BY Zenon DEF QueueKept, Jobs, Working
<1>2. JobsOnce'
  BY Zenon, <1>1 DEF MetalInv, JobsOnce, QueueKept
<1>3. jobq' \in Seq(Conn) /\ cur' \in Conn \cup {NoConn} /\ left' \in Nat
  BY Zenon DEF MetalInv, MetalTyped, QueueKept
<1> QED
  BY Zenon, <1>1, <1>2, <1>3, OneConnection

\* The rows of one connection, and what the invariant says of it.
LEMMA MetalTypes ==
  ASSUME MetalInv, NEW c \in Conn
  PROVE  /\ client[c] \in ClientAt /\ kind[c] \in Kinds /\ sent[c] \in Requested /\ thread[c] \in ThreadAt
         /\ down[c] \in Seq(Frame) /\ replies[c] \in Seq(Event) /\ listening[c] \in BOOLEAN
         /\ made[c] \in Nat /\ given[c] \in Nat
         /\ OnItsWay(c) /\ Counted(c) /\ InOrder(c)
BY Zenon DEF MetalInv, MetalTyped, ConnFits

\* The same of all connections at once.
LEMMA MetalRows ==
  ASSUME MetalInv
  PROVE  /\ client \in [Conn -> ClientAt] /\ kind \in [Conn -> Kinds] /\ sent \in [Conn -> Requested]
         /\ thread \in [Conn -> ThreadAt] /\ down \in [Conn -> Seq(Frame)] /\ replies \in [Conn -> Seq(Event)]
         /\ listening \in [Conn -> BOOLEAN] /\ made \in [Conn -> Nat] /\ given \in [Conn -> Nat]
         /\ jobq \in Seq(Conn) /\ cur \in Conn \cup {NoConn} /\ left \in Nat
BY Zenon DEF MetalInv, MetalTyped

\* An assignment to the state of the client of one connection.
LEMMA ClientSet ==
  ASSUME MetalInv, NEW c \in Conn, NEW v \in ClientAt, client' = Set(client, c, v)
  PROVE  Moved(client, client', c, ClientAt) /\ client'[c] = v
BY Zenon, MetalRows DEF Set, Moved

\* An assignment to the frame on its way to the server of one connection.
LEMMA SentSet ==
  ASSUME MetalInv, NEW c \in Conn, NEW v \in Requested, sent' = Set(sent, c, v)
  PROVE  Moved(sent, sent', c, Requested) /\ sent'[c] = v
BY Zenon, MetalRows DEF Set, Moved

\* An assignment to the state of the thread of one connection.
LEMMA ThreadSet ==
  ASSUME MetalInv, NEW c \in Conn, NEW v \in ThreadAt, thread' = Set(thread, c, v)
  PROVE  Moved(thread, thread', c, ThreadAt) /\ thread'[c] = v
BY Zenon, MetalRows DEF Set, Moved

\* An assignment to the frames on their way to the client of one connection.
LEMMA DownSet ==
  ASSUME MetalInv, NEW c \in Conn, NEW v \in Seq(Frame), down' = Set(down, c, v)
  PROVE  Moved(down, down', c, Seq(Frame)) /\ down'[c] = v
BY Zenon, MetalRows DEF Set, Moved

\* An assignment to the events in the reply channel of one connection.
LEMMA RepliesSet ==
  ASSUME MetalInv, NEW c \in Conn, NEW v \in Seq(Event), replies' = Set(replies, c, v)
  PROVE  Moved(replies, replies', c, Seq(Event)) /\ replies'[c] = v
BY Zenon, MetalRows DEF Set, Moved

\* An assignment to whether the reply channel has a receiver of one connection.
LEMMA ListeningSet ==
  ASSUME MetalInv, NEW c \in Conn, NEW v \in BOOLEAN, listening' = Set(listening, c, v)
  PROVE  Moved(listening, listening', c, BOOLEAN) /\ listening'[c] = v
BY Zenon, MetalRows DEF Set, Moved

\* An assignment to the pieces produced of one connection.
LEMMA MadeSet ==
  ASSUME MetalInv, NEW c \in Conn, NEW v \in Nat, made' = Set(made, c, v)
  PROVE  Moved(made, made', c, Nat) /\ made'[c] = v
BY Zenon, MetalRows DEF Set, Moved

\* An assignment to the pieces the broker has of one connection.
LEMMA GivenSet ==
  ASSUME MetalInv, NEW c \in Conn, NEW v \in Nat, given' = Set(given, c, v)
  PROVE  Moved(given, given', c, Nat) /\ given'[c] = v
BY Zenon, MetalRows DEF Set, Moved

\* The queue of jobs after a step that leaves it alone.
LEMMA KeptQueue ==
  ASSUME QueueKept
  PROVE  Jobs' = Jobs /\ \A k : Working(k)' <=> Working(k)
BY Zenon DEF QueueKept, Jobs, Working

\* read_frame: the rest of the frames.
LEMMA FrameTaken ==
  ASSUME MetalInv, NEW c \in Conn, ReadFrameOf(c)
  PROVE  /\ Moved(down, down', c, Seq(Frame))
         /\ Head(down[c]) \in Frame /\ Has(down[c], Head(down[c]))
         /\ Head(down[c]) = "piece" => LosesPiece(down[c], down'[c])
         /\ Head(down[c]) # "piece" => SamePieces(down[c], down'[c])
         /\ Closes(down'[c]) /\ (\A x : Has(down'[c], x) => Has(down[c], x))
         /\ Head(down[c]) = "done" => down'[c] = <<>>
<1>1. down[c] # <<>> /\ down' = Set(down, c, Tail(down[c])) /\ down[c] \in Seq(Frame) /\ Closes(down[c])
  BY Zenon, MetalTypes DEF ReadFrameOf, InOrder
<1>2. Tail(down[c]) \in Seq(Frame)
  BY Zenon, <1>1, PiecesTail
<1>3. Moved(down, down', c, Seq(Frame)) /\ down'[c] = Tail(down[c])
  BY Zenon, <1>1, <1>2, DownSet
<1> QED
  BY Zenon, <1>1, <1>3, PiecesTail, HasTail

\* write_payload: one frame more.
LEMMA FrameWritten ==
  ASSUME MetalInv, NEW c \in Conn, NEW f \in Frame, WriteFrame(c, f), ~Has(down[c], "done")
  PROVE  /\ Moved(down, down', c, Seq(Frame))
         /\ f = "piece" => GainsPiece(down[c], down'[c])
         /\ f # "piece" => SamePieces(down[c], down'[c])
         /\ Closes(down'[c]) /\ (\A x : Has(down'[c], x) => Has(down[c], x) \/ x = f)
<1>1. down' = Set(down, c, Append(down[c], f)) /\ down[c] \in Seq(Frame)
  BY Zenon, MetalTypes DEF WriteFrame
<1>2. Append(down[c], f) \in Seq(Frame)
  BY Zenon, <1>1, PiecesAppend
<1>3. Moved(down, down', c, Seq(Frame)) /\ down'[c] = Append(down[c], f)
  BY Zenon, <1>1, <1>2, DownSet
<1>4. /\ f = "piece" => GainsPiece(down[c], Append(down[c], f))
      /\ f # "piece" => SamePieces(down[c], Append(down[c], f))
  BY Zenon, <1>1, PiecesAppend
<1>5. Closes(Append(down[c], f)) /\ \A x : Has(Append(down[c], f), x) => Has(down[c], x) \/ x = f
  BY Zenon, <1>1, HasAppend
<1> QED
  BY Zenon, <1>3, <1>4, <1>5

\* recv of the reply loop: the rest of the events.
LEMMA EventTaken ==
  ASSUME MetalInv, NEW c \in Conn, replies[c] # <<>>, replies' = Set(replies, c, Tail(replies[c]))
  PROVE  /\ Moved(replies, replies', c, Seq(Event))
         /\ Head(replies[c]) \in Event /\ Has(replies[c], Head(replies[c]))
         /\ Head(replies[c]) = "piece" => LosesPiece(replies[c], replies'[c])
         /\ Head(replies[c]) # "piece" => SamePieces(replies[c], replies'[c])
         /\ Closes(replies'[c]) /\ (\A x : Has(replies'[c], x) => Has(replies[c], x))
         /\ Head(replies[c]) = "done" => replies'[c] = <<>>
<1>1. replies[c] \in Seq(Event) /\ Closes(replies[c])
  BY Zenon, MetalTypes DEF InOrder
<1>2. Tail(replies[c]) \in Seq(Event)
  BY Zenon, <1>1, PiecesTail
<1>3. Moved(replies, replies', c, Seq(Event)) /\ replies'[c] = Tail(replies[c])
  BY Zenon, <1>2, RepliesSet
<1> QED
  BY Zenon, <1>1, <1>3, PiecesTail, HasTail

\* replies.send of the job at work, of which the end was not yet told: it
\* arrives, or nobody receives it.
LEMMA EventTold ==
  ASSUME MetalInv, cur \in Conn, NEW e \in Event, Tell(e)
  PROVE  /\ Moved(replies, replies', cur, Seq(Event))
         /\ thread[cur] = "relay" /\ e = "piece" => GainsPiece(replies[cur], replies'[cur])
         /\ thread[cur] # "relay" \/ e # "piece" => SamePieces(replies[cur], replies'[cur])
         /\ Closes(replies'[cur]) /\ (Has(replies'[cur], "done") => e = "done")
<1>1. /\ replies[cur] \in Seq(Event) /\ Closes(replies[cur]) /\ ~Has(replies[cur], "done")
      /\ listening[cur] <=> thread[cur] = "relay"
  BY Zenon, MetalTypes DEF InOrder, OnItsWay, Working
<1>2. CASE ~listening[cur]
  <2>1. replies' = replies
    BY Zenon, <1>2 DEF Tell
  <2> QED
    BY Zenon, <1>1, <1>2, <2>1, MetalRows, KeepMoves DEF SamePieces
<1>3. CASE listening[cur]
  <2>1. replies' = Set(replies, cur, Append(replies[cur], e))
    BY Zenon, <1>3 DEF Tell
  <2>2. Append(replies[cur], e) \in Seq(Event)
    BY Zenon, <1>1, PiecesAppend
  <2>3. Moved(replies, replies', cur, Seq(Event)) /\ replies'[cur] = Append(replies[cur], e)
    BY Zenon, <2>1, <2>2, RepliesSet
  <2>4. /\ e = "piece" => GainsPiece(replies[cur], Append(replies[cur], e))
        /\ e # "piece" => SamePieces(replies[cur], Append(replies[cur], e))
    BY Zenon, <1>1, PiecesAppend
  <2>5. Closes(Append(replies[cur], e)) /\ \A x : Has(Append(replies[cur], e), x) => Has(replies[cur], x) \/ x = e
    BY ZenonT(30), <1>1, HasAppend
  <2> QED
    BY Zenon, <1>1, <1>3, <2>3, <2>4, <2>5
<1> QED
  BY Zenon, <1>2, <1>3

\* The thread returns: its rows, and that the connection stays on its way.
LEMMA ThreadEnds ==
  ASSUME MetalInv, NEW c \in Conn, Ends(c), thread[c] # "none", QueueKept,
         client' = client, kind' = kind, made' = made, sent'[c] \in {"", sent[c]}
  PROVE  /\ Moved(thread, thread', c, ThreadAt) /\ thread'[c] = "none"
         /\ Moved(listening, listening', c, BOOLEAN) /\ OnItsWay(c)'
<1>1. Moved(thread, thread', c, ThreadAt) /\ thread'[c] = "none"
  BY Zenon, ThreadSet DEF Ends, ThreadAt
<1>2. Moved(listening, listening', c, BOOLEAN) /\ listening'[c] = FALSE
  BY Zenon, ListeningSet DEF Ends
<1>3. OnItsWay(c)'
  BY Zenon, <1>1, <1>2, KeptQueue, MetalTypes DEF OnItsWay, Generates, Unasked
<1> QED
  BY Zenon, <1>1, <1>2, <1>3

-----------------------------------------------------------------------------
(* Steps of the broker's client.                                           *)

\* TcpStream::connect: the connection's rows are still empty.
LEMMA ConnectFits ==
  ASSUME MetalInv, NEW c \in Conn, Connect(c)
  PROVE  MetalInv'
<1>0. client[c] = "idle"
  BY Zenon DEF Connect
<1>1. /\ thread[c] = "none" /\ sent[c] = "" /\ down[c] = <<>> /\ replies[c] = <<>> /\ ~Working(c)
      /\ made[c] = 0 /\ ~listening[c]
  BY Zenon, <1>0, MetalTypes DEF OnItsWay
<1>2. /\ kind' = kind /\ down' = down /\ replies' = replies /\ listening' = listening
      /\ made' = made /\ given' = given /\ QueueKept
  BY Zenon DEF Connect, worker, channels, QueueKept
<1>3. Moved(client, client', c, ClientAt) /\ client'[c] \in {"asked", "hello"}
  <2>1. PICK v \in {"asked", "hello"} : client' = Set(client, c, v)
    BY Zenon DEF Connect
  <2> QED
    BY Zenon, <2>1, ClientSet DEF ClientAt
<1>4. Moved(thread, thread', c, ThreadAt) /\ thread'[c] \in {"none", "hello"}
  <2>1. CASE thread' = thread
    BY Zenon, <2>1, <1>1, MetalRows, KeepMoves
  <2>2. CASE thread' = Set(thread, c, "hello")
    BY Zenon, <2>2, ThreadSet DEF ThreadAt
  <2> QED
    BY Zenon, <2>1, <2>2 DEF Connect
<1>5. /\ Moved(sent, sent', c, Requested) /\ sent'[c] \in {"", "hello", "http"}
      /\ sent'[c] = "http" => kind[c] = "http"
  <2>1. CASE sent' = sent
    BY Zenon, <2>1, <1>1, MetalRows, KeepMoves
  <2>2. CASE sent' = Set(sent, c, IF kind[c] = "http" THEN "http" ELSE "hello")
    BY Zenon, <2>2, SentSet DEF Requested
  <2> QED
    BY Zenon, <2>1, <2>2 DEF Connect
<1>6. ConnMoves(c)
  BY Zenon, <1>2, <1>3, <1>4, <1>5, MetalRows, KeepMoves DEF ConnMoves
<1>7. Jobs' = Jobs /\ ~Working(c)' /\ ~Has(down[c], "done")
  BY Zenon, <1>1, <1>2, KeptQueue, HasNothing
<1>8. OnItsWay(c)'
  BY Zenon, <1>1, <1>2, <1>3, <1>4, <1>5, <1>7 DEF OnItsWay, Generates
<1>9. Counted(c)'
  BY Zenon, <1>2, <1>4, <1>7, MetalTypes DEF Counted, Balance
<1>10. InOrder(c)'
  BY Zenon, <1>2, <1>7, MetalTypes DEF InOrder, Generates
<1> QED
  BY Zenon, <1>2, <1>6, <1>8, <1>9, <1>10, ConnStep DEF ConnFits

\* metal.rs, connect: the HelloAck is taken, and the request follows it.
LEMMA AckedFits ==
  ASSUME MetalInv, NEW c \in Conn, Acked(c)
  PROVE  MetalInv'
<1>0. client[c] = "hello"
  BY Zenon DEF Acked
<1>1. /\ thread[c] \notin {"queue", "relay"} /\ ~Working(c) /\ sent[c] # "generate" /\ ~Has(down[c], "done")
  BY Zenon, <1>0, MetalTypes DEF OnItsWay, Counted, Balance
<1>2. /\ kind' = kind /\ thread' = thread /\ replies' = replies /\ listening' = listening
      /\ made' = made /\ given' = given /\ QueueKept
  BY Zenon DEF Acked, worker, channels, QueueKept
<1>3. Moved(client, client', c, ClientAt) /\ client'[c] \in {"asked", "broken"}
      /\ (client'[c] = "broken" => sent' = sent)
  <2>1. CASE client' = Set(client, c, "asked")
    BY Zenon, <2>1, ClientSet DEF ClientAt
  <2>2. CASE client' = Set(client, c, "broken") /\ sent' = sent
    BY Zenon, <2>2, ClientSet DEF ClientAt
  <2> QED
    BY Zenon, <2>1, <2>2 DEF Acked
<1>4. /\ Moved(sent, sent', c, Requested)
      /\ \/ sent'[c] = sent[c]
         \/ sent'[c] = "generate" /\ Generates(c) /\ client'[c] = "asked"
         \/ sent'[c] = "status" /\ ~Generates(c)
  <2>1. CASE sent' = sent
    BY Zenon, <2>1, MetalRows, KeepMoves
  <2>2. CASE sent' = Set(sent, c, IF Generates(c) THEN "generate" ELSE "status") /\ client'[c] = "asked"
    BY Zenon, <2>2, SentSet DEF Requested
  <2> QED
    BY Zenon, <2>1, <2>2, <1>3 DEF Acked
<1>5. ReadFrameOf(c)
  BY Zenon DEF Acked
<1>6. ConnMoves(c)
  BY Zenon, <1>2, <1>3, <1>4, <1>5, FrameTaken, MetalRows, KeepMoves DEF ConnMoves
<1>7. Jobs' = Jobs /\ ~Working(c)' /\ ~Has(down'[c], "done")
  BY Zenon, <1>1, <1>2, <1>5, FrameTaken, KeptQueue
<1>8. OnItsWay(c)'
  BY Zenon, <1>0, <1>1, <1>2, <1>3, <1>4, <1>7, MetalTypes DEF OnItsWay, Generates
<1>9. Counted(c)'
  <2>1. PICK p \in Nat, q \in Nat : Balance(c, p, q)
    BY Zenon, MetalTypes DEF Counted, Balance
  <2>2. PICK r \in Nat : Holds(down'[c], r) /\ (p = r \/ p = r + 1)
    BY Zenon, <1>5, <2>1, FrameTaken DEF SamePieces, LosesPiece, Balance
  <2>3. given[c] + r <= made[c]
    <3>1. given[c] + p <= made[c] /\ given[c] \in Nat /\ made[c] \in Nat
      BY Zenon, <2>1, MetalTypes DEF Balance
    <3> QED
      BY <3>1, <2>2, SMT
  <2>4. Balance(c, r, q)'
    BY Zenon, <2>1, <2>2, <2>3, <1>1, <1>2, <1>7 DEF Balance
  <2> QED
    BY Zenon, <2>4 DEF Counted, Balance
<1>10. InOrder(c)'
  BY Zenon, <1>2, <1>5, <1>7, FrameTaken, MetalTypes DEF InOrder, Generates
<1> QED
  BY Zenon, <1>2, <1>6, <1>8, <1>9, <1>10, ConnStep DEF ConnFits

\* MetalStream::next, complete_inner: a piece taken is one the broker has, and
\* behind the end there is nothing.
LEMMA ReadFits ==
  ASSUME MetalInv, NEW c \in Conn, Read(c)
  PROVE  MetalInv'
<1>0. client[c] = "asked" /\ ReadFrameOf(c)
  BY Zenon DEF Read
<1>1. /\ kind' = kind /\ sent' = sent /\ thread' = thread /\ replies' = replies /\ listening' = listening
      /\ made' = made /\ QueueKept
  BY Zenon DEF Read, worker, channels, QueueKept
<1>2. Moved(client, client', c, ClientAt) /\ client'[c] \in {"asked", "complete", "broken"}
  <2>1. CASE client' = client
    BY Zenon, <2>1, <1>0, MetalRows, KeepMoves
  <2>2. ASSUME NEW v \in {"complete", "broken"}, client' = Set(client, c, v)
        PROVE  /\ Moved(client, client', c, ClientAt)
               /\ client'[c] \in {"asked", "complete", "broken"}
    BY Zenon, <2>2, ClientSet DEF ClientAt
  <2> QED
    BY Zenon, <2>1, <2>2 DEF Read
<1>3. /\ Moved(given, given', c, Nat)
      /\ Head(down[c]) = "piece" => given'[c] = given[c] + 1
      /\ Head(down[c]) # "piece" => given'[c] = given[c]
  <2>1. CASE Head(down[c]) = "piece"
    <3>1. given' = Set(given, c, given[c] + 1)
      BY Zenon, <2>1 DEF Read
    <3>2. given[c] + 1 \in Nat
      <4>1. given[c] \in Nat
        BY Zenon, MetalTypes
      <4> QED
        BY <4>1, SMT
    <3> QED
      BY Zenon, <2>1, <3>1, <3>2, GivenSet
  <2>2. CASE Head(down[c]) # "piece"
    BY Zenon, <2>2, MetalRows, KeepMoves DEF Read
  <2> QED
    BY Zenon, <2>1, <2>2
<1>4. ConnMoves(c)
  BY Zenon, <1>0, <1>1, <1>2, <1>3, FrameTaken, MetalRows, KeepMoves DEF ConnMoves
<1>5. OnItsWay(c)'
  BY Zenon, <1>0, <1>1, <1>2, KeptQueue, MetalTypes DEF OnItsWay, Generates
<1>6. PICK p \in Nat, q \in Nat, r \in Nat :
        Balance(c, p, q) /\ Holds(down'[c], r) /\ given'[c] + r = given[c] + p
  <2>1. PICK p \in Nat, q \in Nat : Balance(c, p, q)
    BY Zenon, MetalTypes DEF Counted, Balance
  <2>2. PICK r \in Nat : /\ Holds(down'[c], r)
                         /\ (given'[c] = given[c] + 1 /\ p = r + 1) \/ (given'[c] = given[c] /\ p = r)
    BY Zenon, <1>0, <1>3, <2>1, FrameTaken DEF SamePieces, LosesPiece, Balance
  <2>3. PICK g \in Nat : g = given[c]
    BY Zenon, MetalTypes
  <2>4. PICK g2 : g2 = given'[c]
    OBVIOUS
  <2>5. (g2 = g + 1 /\ p = r + 1) \/ (g2 = g /\ p = r)
    BY Zenon, <2>2, <2>3, <2>4
  <2>6. g2 + r = g + p
    BY <2>5, SMT
  <2>7. given'[c] + r = given[c] + p
    BY Zenon, <2>3, <2>4, <2>6
  <2> QED
    BY Zenon, <2>1, <2>2, <2>7
<1>7. Has(down'[c], "done") => Has(down[c], "done")
  BY Zenon, <1>0, FrameTaken
<1>8. Counted(c)'
  <2>1. Balance(c, r, q)'
    BY Zenon, <1>1, <1>2, <1>6, <1>7 DEF Balance
  <2> QED
    BY Zenon, <2>1 DEF Counted, Balance
<1>9. InOrder(c)'
  BY Zenon, <1>0, <1>1, KeptQueue, FrameTaken, MetalTypes DEF InOrder, Generates
<1> QED
  BY Zenon, <1>1, <1>4, <1>5, <1>8, <1>9, ConnStep DEF ConnFits

\* metal.rs: read_frame fails, or the caller goes away.
LEMMA BrokenFits ==
  ASSUME MetalInv, NEW c \in Conn, ReadEof(c) \/ GiveUp(c)
  PROVE  MetalInv'
<1>1. /\ kind' = kind /\ sent' = sent /\ thread' = thread /\ replies' = replies /\ listening' = listening
      /\ made' = made /\ given' = given /\ down' = down /\ QueueKept
  BY Zenon DEF ReadEof, GiveUp, threads, worker, channels, QueueKept
<1>2. Moved(client, client', c, ClientAt) /\ client'[c] = "broken"
  BY Zenon, ClientSet DEF ReadEof, GiveUp, ClientAt
<1>3. ConnMoves(c)
  BY Zenon, <1>1, <1>2, MetalRows, KeepMoves DEF ConnMoves
<1>4. OnItsWay(c)'
  BY Zenon, <1>1, <1>2, KeptQueue, MetalTypes DEF OnItsWay, Generates
<1>5. Counted(c)' /\ InOrder(c)'
  BY Zenon, <1>1, <1>2, KeptQueue, MetalTypes DEF Counted, Balance, InOrder, Generates
<1> QED
  BY Zenon, <1>1, <1>3, <1>4, <1>5, ConnStep DEF ConnFits

-----------------------------------------------------------------------------
(* Steps of a connection thread.                                           *)

\* handle_protocol: no piece and no end is among the frames before a job is
\* handed over, so the answers to the other requests come behind neither.
LEMMA ReadFrameFits ==
  ASSUME MetalInv, NEW c \in Conn, ReadFrame(c)
  PROVE  MetalInv'
<1>0. thread[c] \in {"hello", "wait"} /\ sent[c] # ""
  BY Zenon DEF ReadFrame
<1>1. /\ kind' = kind /\ client' = client /\ replies' = replies /\ made' = made /\ given' = given /\ QueueKept
      /\ sent' = Set(sent, c, "")
  BY Zenon DEF ReadFrame, worker, channels, QueueKept
<1>2. Moved(sent, sent', c, Requested) /\ sent'[c] = ""
  BY Zenon, <1>1, SentSet DEF Requested
<1>3. /\ client[c] # "idle" /\ ~Working(c) /\ replies[c] = <<>> /\ made[c] = 0 /\ ~listening[c]
      /\ ~Has(down[c], "done")
  BY Zenon, <1>0, MetalTypes DEF OnItsWay, Counted, Balance, Unasked
<1>4. /\ Moved(thread, thread', c, ThreadAt) /\ thread'[c] \in {"none", "hello", "wait", "queue"}
      /\ Moved(listening, listening', c, BOOLEAN) /\ OnItsWay(c)'
  <2>1. CASE Ends(c)
    BY Zenon, <2>1, <1>0, <1>1, <1>2, ThreadEnds
  <2>2. CASE ~Ends(c)
    <3>1. Moved(listening, listening', c, BOOLEAN) /\ listening'[c] = listening[c]
      BY Zenon, <2>2, MetalRows, KeepMoves DEF ReadFrame, channels
    <3>2. CASE sent[c] = "hello"
      <4>1. Moved(thread, thread', c, ThreadAt) /\ thread'[c] = "wait"
        BY Zenon, <3>2, ThreadSet DEF ReadFrame, ThreadAt
      <4>2. OnItsWay(c)'
        BY Zenon, <4>1, <3>1, <1>1, <1>2, <1>3, KeptQueue DEF OnItsWay, Generates
      <4> QED
        BY Zenon, <3>1, <4>1, <4>2
    <3>3. CASE sent[c] = "status"
      <4>1. thread' = thread
        BY Zenon, <3>3 DEF ReadFrame
      <4>2. Moved(thread, thread', c, ThreadAt) /\ thread'[c] = thread[c]
        BY Zenon, <4>1, MetalRows, KeepMoves
      <4>3. OnItsWay(c)'
        BY Zenon, <4>2, <3>1, <1>0, <1>1, <1>2, <1>3, KeptQueue DEF OnItsWay, Generates
      <4> QED
        BY Zenon, <1>0, <3>1, <4>2, <4>3
    <3>4. CASE sent[c] = "generate" /\ ready
      <4>1. Moved(thread, thread', c, ThreadAt) /\ thread'[c] = "queue"
        BY Zenon, <3>4, ThreadSet DEF ReadFrame, ThreadAt
      <4>2. Generates(c) /\ client[c] \notin {"idle", "hello"}
        BY Zenon, <3>4, MetalTypes DEF OnItsWay
      <4>3. OnItsWay(c)'
        BY Zenon, <4>1, <4>2, <3>1, <1>1, <1>2, <1>3, KeptQueue DEF OnItsWay, Generates
      <4> QED
        BY Zenon, <3>1, <4>1, <4>3
    <3>5. sent[c] \in {"hello", "http", "status", "generate"}
      BY Zenon, <1>0, MetalTypes DEF Requested
    <3> QED
      BY Zenon, <2>2, <3>2, <3>3, <3>4, <3>5 DEF ReadFrame
  <2> QED
    BY Zenon, <2>1, <2>2
<1>5. /\ Moved(down, down', c, Seq(Frame)) /\ SamePieces(down[c], down'[c])
      /\ Closes(down'[c]) /\ ~Has(down'[c], "done")
      /\ Has(down'[c], "status") => Has(down[c], "status") \/ ~Generates(c)
  <2>1. CASE down' = down
    BY Zenon, <2>1, <1>3, MetalTypes, MetalRows, KeepMoves DEF InOrder, SamePieces
  <2>2. ASSUME NEW f \in {"ready", "loading", "error", "status"}, WriteFrame(c, f),
               f = "status" => sent[c] \in {"status", "http"}
        PROVE  /\ Moved(down, down', c, Seq(Frame)) /\ SamePieces(down[c], down'[c])
               /\ Closes(down'[c]) /\ ~Has(down'[c], "done")
               /\ Has(down'[c], "status") => Has(down[c], "status") \/ ~Generates(c)
    <3>1. f = "status" => ~Generates(c)
      BY Zenon, <2>2, MetalTypes DEF OnItsWay
    <3>2. f \in Frame /\ f # "piece" /\ f # "done"
      BY Zenon DEF Frame, Event
    <3> QED
      BY Zenon, <2>2, <3>1, <3>2, <1>3, FrameWritten
  <2> QED
    BY Zenon, <2>1, <2>2 DEF ReadFrame
<1>6. ConnMoves(c)
  BY Zenon, <1>1, <1>2, <1>4, <1>5, MetalRows, KeepMoves DEF ConnMoves
<1>7. Counted(c)'
  <2>1. PICK p \in Nat, q \in Nat : Balance(c, p, q)
    BY Zenon, MetalTypes DEF Counted, Balance
  <2>2. Balance(c, p, q)'
    BY Zenon, <2>1, <1>1, <1>3, <1>4, <1>5 DEF Balance, SamePieces
  <2> QED
    BY Zenon, <2>2 DEF Counted, Balance
<1>8. InOrder(c)'
  BY Zenon, <1>1, <1>5, KeptQueue, MetalTypes DEF InOrder, Generates
<1> QED
  BY Zenon, <1>1, <1>4, <1>6, <1>7, <1>8, ConnStep DEF ConnFits

\* read_frame fails in the thread, or recv finds that the worker dropped the
\* job.
LEMMA ThreadGoneFits ==
  ASSUME MetalInv, NEW c \in Conn, ReadFails(c) \/ RelayEnds(c)
  PROVE  MetalInv'
<1>1. /\ kind' = kind /\ client' = client /\ sent' = sent /\ down' = down /\ replies' = replies
      /\ made' = made /\ given' = given /\ QueueKept /\ Ends(c) /\ thread[c] # "none"
  BY Zenon DEF ReadFails, RelayEnds, ends, worker, QueueKept
<1>2. /\ Moved(thread, thread', c, ThreadAt) /\ thread'[c] = "none"
      /\ Moved(listening, listening', c, BOOLEAN) /\ OnItsWay(c)'
  BY Zenon, <1>1, ThreadEnds
<1>3. ConnMoves(c)
  BY Zenon, <1>1, <1>2, MetalRows, KeepMoves DEF ConnMoves
<1>4. Counted(c)' /\ InOrder(c)'
  BY Zenon, <1>1, <1>2, KeptQueue, MetalTypes DEF Counted, Balance, InOrder, Generates
<1> QED
  BY Zenon, <1>1, <1>2, <1>3, <1>4, ConnStep DEF ConnFits

\* The reply loop: a write fails, and what was taken from the channel is lost.
LEMMA RelayFailsFits ==
  ASSUME MetalInv, NEW c \in Conn, RelayFails(c)
  PROVE  MetalInv'
<1>1. /\ kind' = kind /\ client' = client /\ sent' = sent /\ down' = down
      /\ made' = made /\ given' = given /\ QueueKept /\ Ends(c) /\ thread[c] = "relay"
      /\ replies[c] # <<>> /\ replies' = Set(replies, c, Tail(replies[c]))
  BY Zenon DEF RelayFails, ends, worker, QueueKept
<1>2. /\ Moved(thread, thread', c, ThreadAt) /\ thread'[c] = "none"
      /\ Moved(listening, listening', c, BOOLEAN) /\ OnItsWay(c)'
  BY Zenon, <1>1, ThreadEnds
<1>3. Moved(replies, replies', c, Seq(Event)) /\ Closes(replies'[c])
      /\ (Has(replies'[c], "done") => Has(replies[c], "done"))
  BY Zenon, <1>1, EventTaken
<1>4. ConnMoves(c)
  BY Zenon, <1>1, <1>2, <1>3, MetalRows, KeepMoves DEF ConnMoves
<1>5. Counted(c)'
  <2>1. PICK p \in Nat, q \in Nat : Balance(c, p, q)
    BY Zenon, MetalTypes DEF Counted, Balance
  <2>2. PICK r \in Nat : Holds(replies'[c], r)
    BY Zenon, <1>1, <2>1, EventTaken DEF SamePieces, LosesPiece, Balance
  <2>3. Balance(c, p, r)'
    BY Zenon, <1>1, <1>2, <2>1, <2>2 DEF Balance
  <2> QED
    BY Zenon, <2>3 DEF Counted, Balance
<1>6. InOrder(c)'
  BY Zenon, <1>1, <1>3, KeptQueue, MetalTypes DEF InOrder, Generates
<1> QED
  BY Zenon, <1>1, <1>2, <1>4, <1>5, <1>6, ConnStep DEF ConnFits

\* The reply loop: an event of the channel becomes a frame; behind the last
\* event the channel is empty, so every piece has been written by then.
LEMMA RelayFits ==
  ASSUME MetalInv, NEW c \in Conn, Relay(c)
  PROVE  MetalInv'
<1> DEFINE e == Head(replies[c])
<1>1. /\ kind' = kind /\ client' = client /\ sent' = sent
      /\ made' = made /\ given' = given /\ QueueKept /\ thread[c] = "relay"
      /\ replies[c] # <<>> /\ replies' = Set(replies, c, Tail(replies[c])) /\ WriteFrame(c, e)
  BY Zenon DEF Relay, ends, worker, QueueKept
<1>2. /\ ~Has(down[c], "done") /\ Generates(c) /\ client[c] \notin {"idle", "hello"} /\ listening[c]
  BY Zenon, <1>1, MetalTypes DEF Counted, Balance, OnItsWay
<1>3. /\ Moved(replies, replies', c, Seq(Event)) /\ Closes(replies'[c]) /\ e \in Event
      /\ (Has(replies'[c], "done") => Has(replies[c], "done")) /\ (e = "done" => replies'[c] = <<>>)
  BY Zenon, <1>1, EventTaken
<1>4. /\ Moved(down, down', c, Seq(Frame)) /\ Closes(down'[c])
      /\ \A x : Has(down'[c], x) => Has(down[c], x) \/ x = e
  BY Zenon, <1>1, <1>2, <1>3, FrameWritten DEF Frame
<1>5. /\ Moved(thread, thread', c, ThreadAt) /\ Moved(listening, listening', c, BOOLEAN) /\ OnItsWay(c)'
      /\ thread'[c] \in {"none", "relay"} /\ (e = "done" => thread'[c] = "none")
  <2>1. CASE Ends(c)
    BY Zenon, <2>1, <1>1, ThreadEnds
  <2>2. CASE thread' = thread /\ listening' = listening /\ e # "done"
    <3>1. /\ Moved(thread, thread', c, ThreadAt) /\ Moved(listening, listening', c, BOOLEAN)
          /\ thread'[c] = thread[c] /\ listening'[c] = listening[c]
      BY Zenon, <2>2, MetalRows, KeepMoves
    <3>2. OnItsWay(c)'
      BY Zenon, <1>1, <1>2, <3>1, KeptQueue, MetalTypes DEF OnItsWay, Generates, Unasked
    <3> QED
      BY Zenon, <1>1, <2>2, <3>1, <3>2
  <2> QED
    BY Zenon, <2>1, <2>2 DEF Relay
<1>6. ConnMoves(c)
  BY Zenon, <1>1, <1>3, <1>4, <1>5, MetalRows, KeepMoves DEF ConnMoves
<1>7. PICK p \in Nat, q \in Nat : Balance(c, p, q)
  BY Zenon, MetalTypes DEF Counted, Balance
<1>8. PICK x \in Nat, y \in Nat : /\ Holds(down'[c], x) /\ Holds(replies'[c], y)
                                  /\ (x = p + 1 /\ q = y + 1) \/ (x = p /\ q = y)
  <2>1. CASE e = "piece"
    <3>1. GainsPiece(down[c], down'[c]) /\ LosesPiece(replies[c], replies'[c])
      BY Zenon, <2>1, <1>1, <1>2, <1>3, EventTaken, FrameWritten DEF Frame
    <3>2. p + 1 \in Nat
      BY SMT
    <3> QED
      BY Zenon, <1>7, <3>1, <3>2 DEF GainsPiece, LosesPiece, Balance
  <2>2. CASE e # "piece"
    <3>1. SamePieces(down[c], down'[c]) /\ SamePieces(replies[c], replies'[c])
      BY Zenon, <2>2, <1>1, <1>2, <1>3, EventTaken, FrameWritten DEF Frame
    <3> QED
      BY Zenon, <1>7, <3>1 DEF SamePieces, Balance
  <2> QED
    BY Zenon, <2>1, <2>2
<1>9. Counted(c)'
  <2>1. /\ given[c] + x <= made[c] /\ made[c] = given[c] + x + y
        /\ y = 0 => made[c] = given[c] + x
    <3>1. given[c] \in Nat /\ made[c] = given[c] + p + q
      BY Zenon, <1>1, <1>7, MetalTypes DEF Balance
    <3> QED
      BY <3>1, <1>8, SMT
  <2>2. ASSUME Has(down'[c], "done") PROVE y = 0 /\ thread'[c] = "none"
    <3>1. e = "done"
      BY Zenon, <2>2, <1>2, <1>4
    <3>2. Holds(<<>>, y)
      BY Zenon, <3>1, <1>3, <1>8
    <3> QED
      BY Zenon, <3>1, <3>2, <1>5, HoldsNothing
  <2>3. Balance(c, x, y)'
    BY Zenon, <1>1, <1>2, <1>4, <1>5, <1>8, <2>1, <2>2 DEF Balance
  <2> QED
    BY Zenon, <2>3 DEF Counted, Balance
<1>10. InOrder(c)'
  <2>1. e # "status"
    BY Zenon, <1>3 DEF Event
  <2> QED
    BY Zenon, <2>1, <1>1, <1>3, <1>4, KeptQueue, MetalTypes DEF InOrder, Generates
<1> QED
  BY Zenon, <1>1, <1>5, <1>6, <1>9, <1>10, ConnStep DEF ConnFits

\* jobs.send: the job waits at the end of the queue, with nothing produced and
\* nothing taken yet; or the worker is gone and the thread answers an error.
LEMMA SendJobFits ==
  ASSUME MetalInv, NEW c \in Conn, SendJob(c)
  PROVE  MetalInv'
<1>1. /\ thread[c] = "queue" /\ kind' = kind /\ client' = client /\ sent' = sent /\ replies' = replies
      /\ made' = made /\ given' = given /\ cur' = cur /\ left' = left
  BY Zenon DEF SendJob, ends
<1>2. /\ ~Working(c) /\ replies[c] = <<>> /\ made[c] = 0 /\ ~Has(down[c], "done")
      /\ Generates(c) /\ client[c] \notin {"idle", "hello"}
  BY Zenon, <1>1, MetalTypes DEF OnItsWay, Counted, Balance, Unasked
<1>3. CASE alive
  <2>1. /\ jobq' = Append(jobq, c) /\ down' = down
        /\ thread' = Set(thread, c, "relay") /\ listening' = Set(listening, c, TRUE)
    BY Zenon, <1>3 DEF SendJob
  <2>2. Moved(thread, thread', c, ThreadAt) /\ thread'[c] = "relay"
    BY Zenon, <2>1, ThreadSet DEF ThreadAt
  <2>3. Moved(listening, listening', c, BOOLEAN) /\ listening'[c]
    <3>1. Moved(listening, listening', c, BOOLEAN) /\ listening'[c] = TRUE
      BY Zenon, <2>1, ListeningSet
    <3> QED
      BY <3>1, SMT
  <2>4. ConnMoves(c)
    BY Zenon, <1>1, <2>1, <2>2, <2>3, MetalRows, KeepMoves DEF ConnMoves
  <2>5. PICK q \in Seq(Conn) : q = jobq
    BY Zenon, MetalRows
  <2>6. /\ jobq' \in Seq(Conn) /\ Len(q) \in Nat /\ Len(jobq') = Len(q) + 1 /\ jobq'[Len(q) + 1] = c
        /\ \A i \in 1..Len(q) : jobq'[i] = q[i]
    <3>1. jobq' = Append(q, c)
      BY Zenon, <2>1, <2>5
    <3> QED
      BY <3>1, SMT
  <2>7. \A i : i \in 1..Len(jobq') <=> i \in 1..Len(q) \/ i = Len(q) + 1
    BY <2>6, SMT
  <2>8. \A k : k \in Jobs' <=> k \in Jobs \/ k = c
    BY Zenon, <2>5, <2>6, <2>7 DEF Jobs
  <2>9. c # cur /\ \A i \in 1..Len(q) : q[i] # c
    BY Zenon, <1>2, <2>5 DEF Working, Jobs
  <2>10. JobsOnce'
    <3>1. ASSUME NEW i \in 1..Len(jobq'), NEW j \in 1..Len(jobq'), jobq'[i] = jobq'[j] PROVE i = j
      <4>1. \A a, b \in 1..Len(q) : q[a] = q[b] => a = b
        BY Zenon, <2>5 DEF MetalInv, JobsOnce
      <4>2. (i \in 1..Len(q) \/ i = Len(q) + 1) /\ (j \in 1..Len(q) \/ j = Len(q) + 1)
        BY Zenon, <2>7
      <4>3. CASE i \in 1..Len(q) /\ j \in 1..Len(q)
        BY Zenon, <3>1, <4>1, <4>3, <2>6
      <4>4. CASE i \in 1..Len(q) /\ j = Len(q) + 1
        BY Zenon, <3>1, <4>4, <2>6, <2>9
      <4>5. CASE i = Len(q) + 1 /\ j \in 1..Len(q)
        BY Zenon, <3>1, <4>5, <2>6, <2>9
      <4> QED
        BY Zenon, <4>2, <4>3, <4>4, <4>5
    <3>2. cur' \notin Jobs'
      BY Zenon, <1>1, <2>8, <2>9 DEF MetalInv, JobsOnce
    <3> QED
      BY Zenon, <3>1, <3>2, <1>1 DEF MetalInv, JobsOnce
  <2>11. OnItsWay(c)'
    BY Zenon, <1>1, <1>2, <2>2, <2>3, MetalTypes DEF OnItsWay, Generates, Unasked
  <2>12. Counted(c)'
    <3>1. PICK p \in Nat, n \in Nat : Balance(c, p, n)
      BY Zenon, MetalTypes DEF Counted, Balance
    <3>2. /\ given[c] \in Nat /\ n = 0 /\ given[c] + p <= made[c] /\ made[c] = 0
      BY Zenon, <1>2, <3>1, MetalTypes, HoldsNothing DEF Balance
    <3>3. made[c] = given[c] + p + n
      BY <3>2, SMT
    <3>4. Balance(c, p, n)'
      BY Zenon, <3>1, <3>3, <1>1, <1>2, <2>1 DEF Balance
    <3> QED
      BY Zenon, <3>4 DEF Counted, Balance
  <2>13. InOrder(c)'
    BY Zenon, <1>1, <1>2, <2>1, HasNothing, MetalTypes DEF InOrder, Generates
  <2>14. /\ cur' \in Conn \cup {NoConn} /\ left' \in Nat
         /\ \A k \in Conn : k # c => (Working(k)' <=> Working(k)) /\ (k \in Jobs' <=> k \in Jobs)
    BY Zenon, <1>1, <2>8, MetalRows DEF Working
  <2> QED
    BY Zenon, <2>4, <2>6, <2>10, <2>11, <2>12, <2>13, <2>14, OneConnection DEF ConnFits
<1>4. CASE ~alive
  <2>1. WriteFrame(c, "error") /\ Ends(c) /\ QueueKept
    BY Zenon, <1>1, <1>4 DEF SendJob, QueueKept
  <2>2. /\ Moved(thread, thread', c, ThreadAt) /\ thread'[c] = "none"
        /\ Moved(listening, listening', c, BOOLEAN) /\ OnItsWay(c)'
    BY Zenon, <1>1, <2>1, ThreadEnds
  <2>3. "error" \in Frame /\ "error" \notin {"piece", "done", "status"}
    BY Zenon DEF Frame, Event
  <2>4. /\ Moved(down, down', c, Seq(Frame)) /\ SamePieces(down[c], down'[c])
        /\ Closes(down'[c]) /\ \A x : Has(down'[c], x) => Has(down[c], x) \/ x = "error"
    BY Zenon, <1>2, <2>1, <2>3, FrameWritten
  <2>5. ConnMoves(c)
    BY Zenon, <1>1, <2>2, <2>4, MetalRows, KeepMoves DEF ConnMoves
  <2>6. Counted(c)'
    <3>1. PICK p \in Nat, q \in Nat : Balance(c, p, q)
      BY Zenon, MetalTypes DEF Counted, Balance
    <3>2. Balance(c, p, q)'
      BY Zenon, <3>1, <1>1, <1>2, <2>2, <2>3, <2>4 DEF Balance, SamePieces
    <3> QED
      BY Zenon, <3>2 DEF Counted, Balance
  <2>7. InOrder(c)'
    BY Zenon, <1>1, <2>1, <2>3, <2>4, KeptQueue, MetalTypes DEF InOrder, Generates
  <2> QED
    BY Zenon, <1>1, <2>1, <2>2, <2>5, <2>6, <2>7, ConnStep DEF ConnFits
<1> QED
  BY Zenon, <1>3, <1>4

-----------------------------------------------------------------------------
(* Steps of the model worker.                                              *)

\* What the worker's steps leave alone, the job at work being c.
AtWork(c) ==
  /\ c \in Conn /\ cur = c
  /\ kind' = kind /\ client' = client /\ sent' = sent /\ thread' = thread /\ down' = down
  /\ listening' = listening /\ given' = given /\ jobq' = jobq

\* generate returns: the job is gone from the worker.
LEMMA DropFits ==
  ASSUME MetalInv, NEW c, AtWork(c), made' = made, cur' = NoConn, left' = 0,
         Moved(replies, replies', c, Seq(Event)), Closes(replies'[c]),
         SamePieces(replies[c], replies'[c])
  PROVE  MetalInv'
<1>1. c \in Conn /\ ConnMoves(c) /\ Jobs' = Jobs
  BY Zenon, MetalRows, KeepMoves DEF ConnMoves, AtWork, Jobs
<1>2. c \notin Jobs /\ ~Working(c)' /\ Working(c) /\ NoConn \notin Jobs
  <2>1. c \notin Jobs
    BY Zenon DEF MetalInv, JobsOnce, AtWork
  <2>2. c # NoConn
    BY Zenon, <1>1, MetalAssumption
  <2>3. \A i \in 1..Len(jobq) : jobq[i] \in Conn
    <3>1. jobq \in Seq(Conn)
      BY Zenon, MetalRows
    <3> QED
      BY <3>1, SMT
  <2> QED
    BY Zenon, <1>1, <2>1, <2>2, <2>3, MetalAssumption DEF Working, AtWork, Jobs
<1>3. JobsOnce'
  BY Zenon, <1>1, <1>2 DEF MetalInv, JobsOnce, AtWork
<1>4. OnItsWay(c)'
  BY Zenon, <1>1, <1>2, MetalTypes DEF OnItsWay, Generates, AtWork, Unasked
<1>5. Counted(c)'
  BY Zenon, <1>1, MetalTypes DEF Counted, Balance, AtWork, SamePieces
<1>6. InOrder(c)'
  BY Zenon, <1>1, <1>2, MetalTypes DEF InOrder, Generates, AtWork
<1>7. /\ jobq' \in Seq(Conn) /\ cur' \in Conn \cup {NoConn} /\ left' \in Nat
      /\ \A k \in Conn : k # c => (Working(k)' <=> Working(k)) /\ (k \in Jobs' <=> k \in Jobs)
  <2>1. 0 \in Nat
    BY SMT
  <2> QED
    BY Zenon, <1>1, <2>1, MetalRows, MetalAssumption DEF Working, AtWork
<1> QED
  BY Zenon, <1>1, <1>3, <1>4, <1>5, <1>6, <1>7, OneConnection DEF ConnFits

\* An error, a cancellation, the end of the text, or a receiver that is gone.
LEMMA JobOverFits ==
  ASSUME MetalInv, Drop, cur # NoConn,
         replies' = replies \/ Tell("done") \/ Tell("error")
  PROVE  MetalInv'
<1>1. cur \in Conn
  BY Zenon, MetalRows
<1>2. AtWork(cur) /\ made' = made /\ cur' = NoConn /\ left' = 0
  BY Zenon, <1>1 DEF Drop, AtWork, ends, threads
<1>3. /\ Moved(replies, replies', cur, Seq(Event)) /\ Closes(replies'[cur])
      /\ SamePieces(replies[cur], replies'[cur])
  <2>1. CASE replies' = replies
    BY Zenon, <2>1, <1>1, MetalRows, MetalTypes, KeepMoves DEF InOrder, SamePieces
  <2>2. ASSUME NEW e \in {"done", "error"}, Tell(e)
        PROVE  /\ Moved(replies, replies', cur, Seq(Event)) /\ Closes(replies'[cur])
               /\ SamePieces(replies[cur], replies'[cur])
    <3>1. e \in Event /\ e # "piece"
      BY Zenon DEF Event
    <3> QED
      BY Zenon, <2>2, <3>1, <1>1, EventTold
  <2> QED
    BY Zenon, <2>1, <2>2
<1> QED
  BY Zenon, <1>2, <1>3, DropFits

\* Nothing of the connections and the queue changes: LoadModel, a chunk of the
\* prompt.
LEMMA QuietFits ==
  ASSUME MetalInv, ends' = ends, thread' = thread, down' = down, replies' = replies, listening' = listening,
         made' = made, given' = given, QueueKept
  PROVE  MetalInv'
<1>1. client' = client /\ kind' = kind /\ sent' = sent
  BY Zenon DEF ends
<1>2. MetalTyped' /\ JobsOnce'
  BY Zenon, <1>1, KeptQueue DEF MetalInv, MetalTyped, JobsOnce, QueueKept
<1>3. ASSUME NEW k \in Conn PROVE ConnFits(k)'
  <2>1. OnItsWay(k)'
    BY Zenon, <1>1, KeptQueue, MetalTypes DEF OnItsWay, Generates
  <2>2. Counted(k)' /\ InOrder(k)'
    BY Zenon, <1>1, KeptQueue, MetalTypes DEF Counted, Balance, InOrder, Generates
  <2> QED
    BY Zenon, <2>1, <2>2 DEF ConnFits
<1> QED
  BY Zenon, <1>2, <1>3 DEF MetalInv

\* generate begins: the oldest job leaves the queue for the worker, with all
\* its tokens still allowed and nothing produced.
LEMMA TakeJobFits ==
  ASSUME MetalInv, TakeJob
  PROVE  MetalInv'
<1>1. /\ cur = NoConn /\ jobq # <<>> /\ jobq' = Tail(jobq) /\ cur' = Head(jobq) /\ left' = MaxTokens
      /\ kind' = kind /\ client' = client /\ sent' = sent /\ thread' = thread /\ down' = down
      /\ replies' = replies /\ listening' = listening /\ made' = made /\ given' = given
  BY Zenon DEF TakeJob, ends, threads, channels
<1>2. PICK q \in Seq(Conn) : q = jobq
  BY Zenon, MetalRows
<1>3. PICK c : c = Head(q)
  BY Zenon
<1>4. /\ c \in Conn /\ jobq' \in Seq(Conn) /\ Len(q) \in Nat /\ Len(jobq') \in Nat
      /\ Len(q) = Len(jobq') + 1 /\ q[1] = c /\ 1 \in 1..Len(q)
      /\ \A i \in 1..Len(jobq') : jobq'[i] = q[i + 1]
  <2>1. q # <<>> /\ jobq' = Tail(q)
    BY Zenon, <1>1, <1>2
  <2> QED
    BY <2>1, <1>3, SMT
<1>5. /\ \A i \in 1..Len(jobq') : i + 1 \in 1..Len(q) /\ i + 1 # 1
      /\ \A i, j \in 1..Len(jobq') : i + 1 = j + 1 => i = j
  BY <1>4, SMT
<1>6. \A i \in 1..Len(q) : i = 1 \/ \E j \in 1..Len(jobq') : i = j + 1
  <2> SUFFICES ASSUME NEW i \in 1..Len(q), i # 1 PROVE i - 1 \in 1..Len(jobq') /\ i = (i - 1) + 1
    BY Zenon
  <2> QED
    BY <1>4, SMT
<1>7. \A i, j \in 1..Len(q) : q[i] = q[j] => i = j
  BY Zenon, <1>2 DEF MetalInv, JobsOnce
<1>8. c \notin Jobs'
  <2> SUFFICES ASSUME NEW i \in 1..Len(jobq'), jobq'[i] = c PROVE FALSE
    BY Zenon DEF Jobs
  <2>1. q[i + 1] = q[1] /\ i + 1 \in 1..Len(q) /\ i + 1 # 1
    BY Zenon, <1>4, <1>5
  <2> QED
    BY Zenon, <2>1, <1>4, <1>7
<1>9. c \in Jobs /\ \A k : k # c => (k \in Jobs' <=> k \in Jobs)
  <2>1. c \in Jobs
    BY Zenon, <1>2, <1>4 DEF Jobs
  <2>2. ASSUME NEW k, k \in Jobs' PROVE k \in Jobs
    <3>1. PICK i \in 1..Len(jobq') : k = jobq'[i]
      BY Zenon, <2>2 DEF Jobs
    <3>2. k = q[i + 1] /\ i + 1 \in 1..Len(q)
      BY Zenon, <3>1, <1>4, <1>5
    <3> QED
      BY Zenon, <3>2, <1>2 DEF Jobs
  <2>3. ASSUME NEW k, k \in Jobs, k # c PROVE k \in Jobs'
    <3>1. PICK i \in 1..Len(q) : k = q[i]
      BY Zenon, <2>3, <1>2 DEF Jobs
    <3>2. PICK j \in 1..Len(jobq') : i = j + 1
      BY Zenon, <1>4, <1>6, <2>3, <3>1
    <3>3. k = jobq'[j]
      BY Zenon, <1>4, <3>1, <3>2
    <3> QED
      BY Zenon, <3>3 DEF Jobs
  <2> QED
    BY Zenon, <2>1, <2>2, <2>3
<1>10. cur' = c /\ Working(c) /\ Working(c)' /\ made[c] = 0
  <2>1. cur' = c
    BY Zenon, <1>1, <1>2, <1>3
  <2> QED
    BY Zenon, <2>1, <1>4, <1>9, MetalTypes DEF Working, OnItsWay
<1>11. JobsOnce'
  <2>1. ASSUME NEW i \in 1..Len(jobq'), NEW j \in 1..Len(jobq'), jobq'[i] = jobq'[j] PROVE i = j
    <3>1. q[i + 1] = q[j + 1] /\ i + 1 \in 1..Len(q) /\ j + 1 \in 1..Len(q)
      BY Zenon, <1>4, <1>5, <2>1
    <3> QED
      BY Zenon, <3>1, <1>5, <1>7
  <2>2. made[c] + MaxTokens <= MaxTokens
    BY <1>10, MetalAssumption, SMT
  <2> QED
    BY Zenon, <2>1, <2>2, <1>1, <1>8, <1>10 DEF JobsOnce
<1>12. ConnMoves(c)
  BY Zenon, <1>1, MetalRows, KeepMoves DEF ConnMoves
<1>13. OnItsWay(c)'
  BY Zenon, <1>1, <1>4, <1>8, <1>10, MetalTypes DEF OnItsWay, Generates
<1>14. Counted(c)' /\ InOrder(c)'
  BY ZenonT(30), <1>1, <1>4, <1>10, MetalTypes DEF Counted, Balance, InOrder, Generates
<1>15. /\ cur' \in Conn \cup {NoConn} /\ left' \in Nat
       /\ \A k \in Conn : k # c => (Working(k)' <=> Working(k)) /\ (k \in Jobs' <=> k \in Jobs)
  BY Zenon, <1>1, <1>4, <1>9, <1>10, MetalAssumption DEF Working
<1> QED
  BY Zenon, <1>4, <1>11, <1>12, <1>13, <1>14, <1>15, OneConnection DEF ConnFits

\* The decode loop: a piece counts as produced when the channel takes it, and
\* the tokens that are left bound what is still to come.
LEMMA DecodeFits ==
  ASSUME MetalInv, Decode
  PROVE  MetalInv'
<1> DEFINE c == cur
<1>1. /\ c \in Conn /\ left > 0 /\ left' = left - 1 /\ cur' = cur
      /\ kind' = kind /\ client' = client /\ sent' = sent /\ thread' = thread /\ down' = down
      /\ listening' = listening /\ given' = given /\ jobq' = jobq
  BY Zenon, MetalRows DEF Decode, ends, threads
<1>2. Jobs' = Jobs /\ \A k : Working(k)' <=> Working(k)
  BY Zenon, <1>1 DEF Jobs, Working
<1>3. /\ Working(c) /\ c \notin Jobs /\ Generates(c) /\ client[c] \notin {"idle", "hello"}
      /\ thread[c] \notin Unasked /\ (listening[c] <=> thread[c] = "relay") /\ c # NoConn
  <2>1. Working(c) /\ c \notin Jobs /\ c # NoConn
    BY Zenon, <1>1, MetalAssumption DEF Working, MetalInv, JobsOnce
  <2> QED
    BY Zenon, <2>1, <1>1, MetalTypes DEF OnItsWay
<1>4. \/ replies' = replies /\ made' = made
      \/ listening[c] /\ Tell("reason") /\ made' = made
      \/ listening[c] /\ Tell("piece") /\ made' = Set(made, c, made[c] + 1)
  BY Zenon DEF Decode
<1>5. /\ made[c] \in Nat /\ given[c] \in Nat /\ left \in Nat /\ made[c] + 1 \in Nat
      /\ made[c] + left <= MaxTokens
  <2>1. made[c] \in Nat /\ given[c] \in Nat /\ left \in Nat
    BY Zenon, <1>1, MetalRows, MetalTypes
  <2>2. made[c] + 1 \in Nat
    BY <2>1, SMT
  <2> QED
    BY Zenon, <2>1, <2>2, <1>3 DEF MetalInv, JobsOnce
<1>6. /\ Moved(replies, replies', c, Seq(Event)) /\ Closes(replies'[c]) /\ ~Has(replies'[c], "done")
      /\ Moved(made, made', c, Nat)
      /\ \/ made'[c] = made[c] /\ SamePieces(replies[c], replies'[c])
         \/ made'[c] = made[c] + 1 /\ GainsPiece(replies[c], replies'[c])
  <2>1. CASE replies' = replies /\ made' = made
    BY Zenon, <2>1, <1>1, <1>3, MetalRows, MetalTypes, KeepMoves DEF InOrder, SamePieces
  <2>2. CASE listening[c] /\ Tell("reason") /\ made' = made
    <3>1. "reason" \in Event /\ "reason" \notin {"piece", "done"}
      BY Zenon DEF Event
    <3>2. Moved(made, made', c, Nat) /\ made'[c] = made[c]
      BY Zenon, <2>2, <1>1, MetalRows, KeepMoves
    <3> QED
      BY Zenon, <2>2, <3>1, <3>2, <1>1, EventTold
  <2>3. CASE listening[c] /\ Tell("piece") /\ made' = Set(made, c, made[c] + 1)
    <3>1. "piece" \in Event /\ "piece" # "done"
      BY Zenon DEF Event
    <3>2. Moved(made, made', c, Nat) /\ made'[c] = made[c] + 1
      BY Zenon, <2>3, <1>1, <1>5, MadeSet
    <3> QED
      BY Zenon, <2>3, <3>1, <3>2, <1>1, <1>3, EventTold
  <2> QED
    BY Zenon, <1>4, <2>1, <2>2, <2>3
<1>7. ConnMoves(c)
  BY Zenon, <1>1, <1>6, MetalRows, KeepMoves DEF ConnMoves
<1>8. left' \in Nat /\ made'[c] + left' <= MaxTokens
  <2>1. PICK m \in Nat, l \in Nat : m = made[c] /\ l = left
    BY Zenon, <1>5
  <2>2. PICK m2, l2 : m2 = made'[c] /\ l2 = left'
    BY Zenon
  <2>3. l > 0 /\ l2 = l - 1 /\ m + l <= MaxTokens /\ (m2 = m \/ m2 = m + 1)
    BY Zenon, <2>1, <2>2, <1>1, <1>5, <1>6
  <2>4. l2 \in Nat /\ m2 + l2 <= MaxTokens
    BY <2>3, MetalAssumption, SMT
  <2> QED
    BY Zenon, <2>2, <2>4
<1>9. JobsOnce'
  BY Zenon, <1>1, <1>2, <1>8 DEF MetalInv, JobsOnce
<1>10. OnItsWay(c)'
  BY Zenon, <1>1, <1>2, <1>3, MetalTypes DEF OnItsWay, Generates
<1>11. Counted(c)'
  <2>0. PICK n : n = made'[c]
    OBVIOUS
  <2>1. PICK p \in Nat, q \in Nat : Balance(c, p, q)
    BY Zenon, <1>1, MetalTypes DEF Counted, Balance
  <2>2. PICK r \in Nat : /\ Holds(replies'[c], r)
                         /\ (made'[c] = made[c] /\ r = q) \/ (made'[c] = made[c] + 1 /\ r = q + 1)
    <3>1. q + 1 \in Nat
      BY SMT
    <3> QED
      BY Zenon, <2>1, <3>1, <1>6 DEF Balance, SamePieces, GainsPiece
  <2>3. PICK m \in Nat, g \in Nat : m = made[c] /\ g = given[c]
    BY Zenon, <1>5
  <2>4. /\ g + p <= m /\ (thread[c] = "relay" => m = g + p + q)
        /\ (n = m /\ r = q) \/ (n = m + 1 /\ r = q + 1)
    BY Zenon, <2>0, <2>1, <2>2, <2>3 DEF Balance
  <2>5. g + p <= n /\ (thread[c] = "relay" => n = g + p + r)
    BY <2>4, SMT
  <2>6. given[c] + p <= made'[c] /\ (thread[c] = "relay" => made'[c] = given[c] + p + r)
    BY Zenon, <2>0, <2>3, <2>5
  <2>7. thread[c] = "none" => made' = made
    BY Zenon, <1>3, <1>4
  <2>8. Balance(c, p, r)'
    BY Zenon, <2>1, <2>2, <2>6, <2>7, <1>1, <1>3 DEF Balance
  <2> QED
    BY Zenon, <2>8 DEF Counted, Balance
<1>12. InOrder(c)'
  BY Zenon, <1>1, <1>6, MetalTypes DEF InOrder, Generates
<1>13. /\ jobq' \in Seq(Conn) /\ cur' \in Conn \cup {NoConn}
       /\ \A k \in Conn : k # c => (Working(k)' <=> Working(k)) /\ (k \in Jobs' <=> k \in Jobs)
  BY Zenon, <1>1, <1>2, MetalRows
<1> QED
  BY Zenon, <1>1, <1>7, <1>8, <1>9, <1>10, <1>11, <1>12, <1>13, OneConnection DEF ConnFits

\* The worker panics: no connection is at work any more.
LEMMA WorkerDiesFits ==
  ASSUME MetalInv, WorkerDies
  PROVE  MetalInv'
<1>1. /\ jobq' = <<>> /\ cur' = NoConn /\ left' = 0
      /\ kind' = kind /\ client' = client /\ sent' = sent /\ thread' = thread /\ down' = down
      /\ replies' = replies /\ listening' = listening /\ made' = made /\ given' = given
  BY Zenon DEF WorkerDies, ends, threads, channels
<1>2. Jobs' = {} /\ jobq' \in Seq(Conn) /\ left' \in Nat /\ \A i : i \notin 1..Len(jobq')
  BY <1>1, SMT DEF Jobs
<1>3. MetalTyped' /\ JobsOnce'
  BY Zenon, <1>1, <1>2 DEF MetalInv, MetalTyped, JobsOnce
<1>4. ASSUME NEW k \in Conn PROVE ConnFits(k)'
  <2>1. ~Working(k)' /\ k \notin Jobs'
    BY Zenon, <1>1, <1>2, MetalAssumption DEF Working
  <2>2. OnItsWay(k)'
    BY Zenon, <1>1, <2>1, MetalTypes DEF OnItsWay, Generates
  <2>3. Counted(k)' /\ InOrder(k)'
    BY Zenon, <1>1, <2>1, MetalTypes DEF Counted, Balance, InOrder, Generates
  <2> QED
    BY Zenon, <2>2, <2>3 DEF ConnFits
<1> QED
  BY Zenon, <1>3, <1>4 DEF MetalInv

-----------------------------------------------------------------------------
\* server.rs, metal.rs: the invariant, whatever connection, worker or client
\* fails on the way.
LEMMA MetalStart ==
  ASSUME MetalInit
  PROVE  MetalInv
<1>1. /\ client = [c \in Conn |-> "idle"] /\ sent = [c \in Conn |-> ""] /\ thread = [c \in Conn |-> "none"]
      /\ down = [c \in Conn |-> <<>>] /\ replies = [c \in Conn |-> <<>>] /\ listening = [c \in Conn |-> FALSE]
      /\ made = [c \in Conn |-> 0] /\ given = [c \in Conn |-> 0] /\ kind \in [Conn -> Kinds]
      /\ jobq = <<>> /\ cur = NoConn /\ left = 0
  BY Zenon DEF MetalInit
<1>2. /\ <<>> \in Seq(Frame) /\ <<>> \in Seq(Event) /\ <<>> \in Seq(Conn) /\ 0 \in Nat
      /\ Jobs = {} /\ \A i : i \notin 1..Len(jobq)
  <2>1. <<>> \in Seq(Frame) /\ <<>> \in Seq(Event) /\ <<>> \in Seq(Conn) /\ 0 \in Nat
    BY SMT
  <2>2. \A i : i \notin 1..Len(<<>>)
    BY SMT
  <2> QED
    BY Zenon, <1>1, <2>1, <2>2 DEF Jobs
<1>3. MetalTyped
  BY Zenon, <1>1, <1>2 DEF MetalTyped, ClientAt, Requested, ThreadAt
<1>4. JobsOnce
  BY Zenon, <1>1, <1>2 DEF JobsOnce
<1>5. ASSUME NEW c \in Conn PROVE ConnFits(c)
  <2>1. /\ client[c] = "idle" /\ sent[c] = "" /\ thread[c] = "none" /\ down[c] = <<>> /\ replies[c] = <<>>
        /\ ~listening[c] /\ made[c] = 0 /\ given[c] = 0 /\ ~Working(c)
    BY Zenon, <1>1, <1>2, MetalAssumption DEF Working
  <2>2. OnItsWay(c)
    BY Zenon, <1>2, <2>1 DEF OnItsWay, Unasked
  <2>3. Holds(down[c], 0) /\ Holds(replies[c], 0) /\ ~Has(down[c], "done")
    BY Zenon, <2>1, HoldsNothing, HasNothing
  <2>4. given[c] + 0 <= made[c]
    <3>1. 0 + 0 <= 0
      BY SMT
    <3> QED
      BY Zenon, <2>1, <3>1
  <2>5. Balance(c, 0, 0)
    BY Zenon, <2>1, <2>3, <2>4 DEF Balance
  <2>6. Counted(c) /\ InOrder(c)
    BY Zenon, <1>2, <2>1, <2>5, HasNothing DEF Counted, Balance, InOrder
  <2> QED
    BY Zenon, <2>2, <2>6 DEF ConnFits
<1> QED
  BY Zenon, <1>3, <1>4, <1>5 DEF MetalInv

\* A step keeps the invariant.
LEMMA MetalStep ==
  ASSUME MetalInv, [MetalNext]_metalVars
  PROVE  MetalInv'
<1>1. ASSUME NEW c \in Conn, Connect(c) \/ GiveUp(c) \/ Client(c) \/ Thread(c) PROVE MetalInv'
  <2>1. \/ Connect(c) \/ Acked(c) \/ Read(c) \/ ReadEof(c) \/ GiveUp(c)
        \/ ReadFrame(c) \/ ReadFails(c) \/ SendJob(c) \/ Relay(c) \/ RelayFails(c) \/ RelayEnds(c)
    BY Zenon, <1>1 DEF Client, Thread
  <2> QED
    BY Zenon, <2>1, ConnectFits, AckedFits, ReadFits, BrokenFits, ReadFrameFits, ThreadGoneFits,
       SendJobFits, RelayFits, RelayFailsFits
<1>2. CASE LoadModel
  <2>1. /\ ends' = ends /\ thread' = thread /\ down' = down /\ replies' = replies /\ listening' = listening
        /\ made' = made /\ given' = given /\ QueueKept
    BY Zenon, <1>2 DEF LoadModel, threads, channels, QueueKept
  <2> QED
    BY Zenon, <2>1, QuietFits
<1>3. CASE JobFails \/ JobEnds \/ SendFails
  <2>1. Drop /\ cur # NoConn /\ (replies' = replies \/ Tell("done") \/ Tell("error"))
    BY Zenon, <1>3 DEF JobFails, JobEnds, SendFails
  <2> QED
    BY Zenon, <2>1, JobOverFits
<1>4. CASE Prefill
  <2>1. CASE cancel[cur]
    <3>1. Drop /\ cur # NoConn /\ Tell("done")
      BY Zenon, <1>4, <2>1 DEF Prefill
    <3> QED
      BY Zenon, <3>1, JobOverFits
  <2>2. CASE ~cancel[cur]
    <3>1. /\ ends' = ends /\ thread' = thread /\ down' = down /\ replies' = replies /\ listening' = listening
          /\ made' = made /\ given' = given /\ QueueKept
      BY Zenon, <1>4, <2>2 DEF Prefill, threads, channels, QueueKept
    <3> QED
      BY Zenon, <3>1, QuietFits
  <2> QED
    BY Zenon, <2>1, <2>2
<1>5. CASE UNCHANGED metalVars
  <2>1. /\ ends' = ends /\ thread' = thread /\ down' = down /\ replies' = replies /\ listening' = listening
        /\ made' = made /\ given' = given /\ QueueKept
    BY Zenon, <1>5 DEF metalVars, threads, channels, worker, QueueKept
  <2> QED
    BY Zenon, <2>1, QuietFits
<1>6. CASE TakeJob \/ Decode \/ WorkerDies
  BY Zenon, <1>6, TakeJobFits, DecodeFits, WorkerDiesFits
<1> QED
  BY Zenon, <1>1, <1>2, <1>3, <1>4, <1>5, <1>6 DEF MetalNext, Worker

\* The appliance and its client: what connects the pieces a worker produced
\* with those on the way and those the broker has, for any number of
\* connections, tokens and failures and any length of the queues.
THEOREM MetalInvariant == MetalSpec => []MetalInv
<1>1. MetalInit => MetalInv
  BY MetalStart
<1>2. MetalInv /\ [MetalNext]_metalVars => MetalInv'
  BY MetalStep
<1> QED
  BY <1>1, <1>2, PTL DEF MetalSpec

-----------------------------------------------------------------------------
(* The appliance implements GenerationService.                             *)

phases == [c \in Conn |-> Phase(c)]

\* The state of a request, as the broker sees it, after a step of its client.
LEMMA PhaseStep ==
  ASSUME NEW c \in Conn, kind' = kind, Moved(client, client', c, ClientAt)
  PROVE  phases' = [phases EXCEPT ![c] = Phase(c)'] /\ phases[c] = Phase(c)
<1>1. \A k \in Conn : k # c => Phase(k)' = Phase(k)
  BY Zenon DEF Phase, Generates, Moved
<1> QED
  BY Zenon, <1>1 DEF phases

\* Steps that are not about what the broker sees.
LEMMA PhaseKept ==
  ASSUME kind' = kind, client' = client
  PROVE  phases' = phases
BY Zenon DEF phases, Phase, Generates

\* A step of one client that changes nothing the broker sees.
LEMMA PhaseSame ==
  ASSUME NEW c \in Conn, kind' = kind, Moved(client, client', c, ClientAt), Phase(c)' = Phase(c)
  PROVE  phases' = phases
<1>1. \A k \in Conn : Phase(k)' = Phase(k)
  BY Zenon DEF Phase, Generates, Moved
<1> QED
  BY Zenon, <1>1 DEF phases

\* connect of a client that wants a reply is an Ask, or the end of it.
LEMMA AckedImplements ==
  ASSUME MetalInv, NEW c \in Conn, Acked(c)
  PROVE  Abstract!SNext \/ UNCHANGED <<phases, made, given>>
<1>1. client[c] = "hello" /\ kind' = kind /\ made' = made /\ given' = given
  BY Zenon DEF Acked
<1>2. Moved(client, client', c, ClientAt) /\ client'[c] \in {"asked", "broken"}
  BY Zenon, ClientSet DEF Acked, ClientAt
<1>3. CASE ~Generates(c)
  <2>1. Phase(c)' = Phase(c)
    BY Zenon, <1>1, <1>3 DEF Phase, Generates
  <2> QED
    BY Zenon, <2>1, <1>1, <1>2, PhaseSame
<1>4. CASE Generates(c)
  <2>1. Phase(c) = "idle" /\ Phase(c)' \in {"asked", "broken"}
    BY Zenon, <1>1, <1>2, <1>4 DEF Phase, Generates
  <2>2. phases[c] = "idle" /\ phases' \in {[phases EXCEPT ![c] = "asked"], [phases EXCEPT ![c] = "broken"]}
    BY Zenon, <1>1, <1>2, <2>1, PhaseStep
  <2>3. Abstract!Ask(c) \/ Abstract!End(c)
    BY Zenon, <1>1, <2>2 DEF Abstract!Ask, Abstract!End, phases
  <2> QED
    BY Zenon, <2>3 DEF Abstract!SNext
<1> QED
  BY Zenon, <1>3, <1>4

\* A client that gives up, or finds the connection closed, ends its request.
LEMMA BrokenImplements ==
  ASSUME MetalInv, NEW c \in Conn, ReadEof(c) \/ GiveUp(c)
  PROVE  Abstract!SNext \/ UNCHANGED <<phases, made, given>>
<1>1. client[c] \in {"idle", "hello", "asked"} /\ kind' = kind /\ made' = made /\ given' = given
  BY Zenon DEF ReadEof, GiveUp
<1>2. Moved(client, client', c, ClientAt) /\ client'[c] = "broken"
  BY Zenon, ClientSet DEF ReadEof, GiveUp, ClientAt
<1>3. CASE ~Generates(c)
  <2>1. Phase(c)' = Phase(c)
    BY Zenon, <1>1, <1>3 DEF Phase, Generates
  <2> QED
    BY Zenon, <2>1, <1>1, <1>2, PhaseSame
<1>4. CASE Generates(c)
  <2>1. Phase(c) \in {"idle", "asked"} /\ Phase(c)' = "broken"
    BY Zenon, <1>1, <1>2, <1>4 DEF Phase, Generates
  <2>2. phases[c] \in {"idle", "asked"} /\ phases' = [phases EXCEPT ![c] = "broken"]
    BY Zenon, <1>1, <1>2, <2>1, PhaseStep
  <2>3. Abstract!End(c)
    BY Zenon, <1>1, <2>2 DEF Abstract!End, phases
  <2> QED
    BY Zenon, <2>3 DEF Abstract!SNext
<1> QED
  BY Zenon, <1>3, <1>4

\* MetalStream::next: a piece is one that was produced and not yet given, and
\* when the end is read none is missing.
LEMMA ReadImplements ==
  ASSUME MetalInv, NEW c \in Conn, Read(c)
  PROVE  Abstract!SNext \/ UNCHANGED <<phases, made, given>>
<1> DEFINE f == Head(down[c])
<1>1. client[c] = "asked" /\ kind' = kind /\ made' = made /\ ReadFrameOf(c)
  BY Zenon DEF Read
<1>2. f \in Frame /\ Has(down[c], f)
  BY Zenon, <1>1, FrameTaken
<1>3. f = "piece" => given[c] < made[c] /\ Generates(c)
  <2> SUFFICES ASSUME f = "piece" PROVE given[c] < made[c] /\ Generates(c)
    BY Zenon
  <2>1. PICK p \in Nat, q \in Nat : Balance(c, p, q)
    BY Zenon, MetalTypes DEF Counted, Balance
  <2>2. PICK r \in Nat : p = r + 1
    BY Zenon, <1>1, <2>1, FrameTaken DEF LosesPiece, Balance
  <2>3. PICK m \in Nat, g \in Nat : m = made[c] /\ g = given[c]
    BY Zenon, MetalTypes
  <2>4. g + p <= m /\ (~Generates(c) => m = 0)
    BY Zenon, <2>1, <2>3, MetalTypes DEF Balance, OnItsWay
  <2>5. g < m /\ m # 0
    BY <2>2, <2>4, SMT
  <2> QED
    BY Zenon, <2>3, <2>4, <2>5
<1>4. f = "done" => given[c] = made[c]
  <2> SUFFICES ASSUME f = "done" PROVE given[c] = made[c]
    BY Zenon
  <2>1. PICK p \in Nat, q \in Nat : Balance(c, p, q)
    BY Zenon, MetalTypes DEF Counted, Balance
  <2>2. p = 0
    BY Zenon, <1>1, <2>1, FrameTaken, HoldsNothing DEF SamePieces, Balance
  <2>3. made[c] = given[c] + 0 /\ given[c] \in Nat
    BY Zenon, <1>2, <2>1, <2>2, MetalTypes DEF Balance
  <2> QED
    BY <2>3, SMT
<1>5. Generates(c) => f # "status"
  BY Zenon, <1>2, MetalTypes DEF InOrder
<1>6. CASE f = "piece"
  <2>1. given' = [given EXCEPT ![c] = given[c] + 1] /\ client' = client
    BY Zenon, <1>6 DEF Read, Set
  <2>2. Phase(c) = "asked" /\ phases' = phases /\ phases[c] = Phase(c)
    BY Zenon, <1>1, <1>3, <1>6, <2>1, PhaseKept DEF Phase, phases
  <2>3. Abstract!Give(c)
    BY Zenon, <1>1, <1>3, <1>6, <2>1, <2>2 DEF Abstract!Give, phases
  <2> QED
    BY Zenon, <2>3 DEF Abstract!SNext
<1>7. CASE f # "piece"
  <2>1. given' = given
    BY Zenon, <1>7 DEF Read
  <2>2. CASE client' = client
    BY Zenon, <2>1, <2>2, <1>1, PhaseKept
  <2>3. ASSUME NEW v \in {"complete", "broken"}, client' = Set(client, c, v),
               v = "complete" => f \in {"done", "status"}
        PROVE  Abstract!SNext \/ UNCHANGED <<phases, made, given>>
    <3>1. Moved(client, client', c, ClientAt) /\ client'[c] = v
      BY Zenon, <2>3, ClientSet DEF ClientAt
    <3>2. CASE ~Generates(c)
      <4>1. Phase(c)' = Phase(c)
        BY Zenon, <1>1, <3>2 DEF Phase, Generates
      <4> QED
        BY Zenon, <4>1, <3>1, <1>1, <2>1, PhaseSame
    <3>3. CASE Generates(c)
      <4>1. Phase(c) = "asked" /\ Phase(c)' = v
        BY Zenon, <1>1, <3>1, <3>3 DEF Phase, Generates
      <4>2. phases[c] = "asked" /\ phases' = [phases EXCEPT ![c] = v]
        BY Zenon, <4>1, <3>1, <1>1, PhaseStep
      <4>3. v = "complete" => given[c] = made[c]
        BY Zenon, <2>3, <3>3, <1>4, <1>5
      <4>4. Abstract!End(c)
        BY Zenon, <4>2, <4>3, <1>1, <2>1 DEF Abstract!End, phases
      <4> QED
        BY Zenon, <4>4 DEF Abstract!SNext
    <3> QED
      BY Zenon, <3>2, <3>3
  <2> QED
    BY Zenon, <2>2, <2>3 DEF Read
<1> QED
  BY Zenon, <1>6, <1>7

\* The decode loop: a piece is produced for a request that was made, and
\* never more of them than max_tokens.
LEMMA DecodeImplements ==
  ASSUME MetalInv, Decode
  PROVE  Abstract!SNext \/ UNCHANGED <<phases, made, given>>
<1>1. cur \in Conn /\ cur # NoConn /\ left > 0 /\ kind' = kind /\ client' = client /\ given' = given
  BY Zenon, MetalRows DEF Decode, ends
<1>2. phases' = phases
  BY Zenon, <1>1, PhaseKept
<1>3. CASE made' = made
  BY Zenon, <1>1, <1>2, <1>3
<1>4. CASE made' = Set(made, cur, made[cur] + 1)
  <2>1. Working(cur) /\ made[cur] \in Nat /\ left \in Nat /\ made[cur] + left <= MaxTokens
    BY Zenon, <1>1, MetalTypes, MetalRows DEF Working, MetalInv, JobsOnce
  <2>2. made[cur] < MaxTokens
    <3>1. PICK m \in Nat, l \in Nat : m = made[cur] /\ l = left
      BY Zenon, <2>1
    <3>2. l > 0 /\ m + l <= MaxTokens
      BY Zenon, <1>1, <2>1, <3>1
    <3>3. m < MaxTokens
      BY <3>2, MetalAssumption, SMT
    <3> QED
      BY Zenon, <3>1, <3>3
  <2>3. phases[cur] = client[cur] /\ client[cur] # "idle"
    BY Zenon, <1>1, <2>1, MetalTypes DEF phases, Phase, OnItsWay
  <2>4. Abstract!Produce(cur)
    BY Zenon, <1>1, <1>2, <1>4, <2>2, <2>3 DEF Abstract!Produce, phases, Set
  <2> QED
    BY Zenon, <1>1, <2>4 DEF Abstract!SNext
<1> QED
  BY Zenon, <1>3, <1>4 DEF Decode

\* TcpStream::connect is not yet a request.
LEMMA ConnectImplements ==
  ASSUME MetalInv, NEW c \in Conn, Connect(c)
  PROVE  UNCHANGED <<phases, made, given>>
<1>1. /\ client[c] = "idle" /\ kind' = kind /\ made' = made /\ given' = given
      /\ client' = Set(client, c, IF kind[c] = "http" THEN "asked" ELSE "hello")
  BY Zenon DEF Connect
<1>2. /\ Moved(client, client', c, ClientAt)
      /\ client'[c] = "hello" \/ (client'[c] = "asked" /\ kind[c] = "http")
  <2>1. CASE kind[c] = "http"
    BY Zenon, <1>1, <2>1, ClientSet DEF ClientAt
  <2>2. CASE kind[c] # "http"
    BY Zenon, <1>1, <2>2, ClientSet DEF ClientAt
  <2> QED
    BY Zenon, <2>1, <2>2
<1>3. Phase(c)' = Phase(c)
  BY Zenon, <1>1, <1>2 DEF Phase, Generates
<1> QED
  BY Zenon, <1>1, <1>2, <1>3, PhaseSame

\* Every step of the appliance and of its clients is a step of the service, or
\* none.
LEMMA StepImplements ==
  ASSUME MetalInv, [MetalNext]_metalVars
  PROVE  Abstract!SNext \/ UNCHANGED <<phases, made, given>>
<1>1. ASSUME kind' = kind, client' = client, made' = made, given' = given
      PROVE  UNCHANGED <<phases, made, given>>
  BY Zenon, <1>1, PhaseKept
<1>2. ASSUME NEW c \in Conn, Connect(c) \/ GiveUp(c) \/ Client(c)
      PROVE  Abstract!SNext \/ UNCHANGED <<phases, made, given>>
  <2>1. Connect(c) \/ Acked(c) \/ Read(c) \/ ReadEof(c) \/ GiveUp(c)
    BY Zenon, <1>2 DEF Client
  <2> QED
    BY Zenon, <2>1, ConnectImplements, AckedImplements, ReadImplements, BrokenImplements
<1>3. ASSUME NEW c \in Conn, Thread(c) PROVE UNCHANGED <<phases, made, given>>
  <2>1. kind' = kind /\ client' = client /\ made' = made /\ given' = given
    BY Zenon, <1>3 DEF Thread, ReadFrame, ReadFails, SendJob, Relay, RelayFails, RelayEnds, ends
  <2> QED
    BY Zenon, <2>1, <1>1
<1>4. ASSUME LoadModel \/ TakeJob \/ JobFails \/ Prefill \/ JobEnds \/ SendFails \/ WorkerDies
             \/ UNCHANGED metalVars
      PROVE  UNCHANGED <<phases, made, given>>
  <2>1. kind' = kind /\ client' = client /\ made' = made /\ given' = given
    BY Zenon, <1>4 DEF LoadModel, TakeJob, JobFails, Prefill, JobEnds, SendFails, WorkerDies, Drop, ends, metalVars
  <2> QED
    BY Zenon, <2>1, <1>1
<1> QED
  BY Zenon, <1>2, <1>3, <1>4, DecodeImplements DEF MetalNext, Worker

\* server.rs, metal.rs: what the broker may rely on when it asks the appliance
\* for a reply.  Pieces are given only once produced, never more than
\* max_tokens of them, a reply reported complete holds every piece, and nothing
\* follows its end, whatever connection, worker or client fails on the way.
\* ImplementsService says besides that there is an end.
THEOREM ApplianceImplements == MetalSpec => Abstract!ServiceSteps
<1>1. MetalInit => Abstract!SInit
  <2> SUFFICES ASSUME MetalInit PROVE Abstract!SInit
    BY Zenon
  <2>1. client = [c \in Conn |-> "idle"] /\ made = [c \in Conn |-> 0] /\ given = [c \in Conn |-> 0]
    BY Zenon DEF MetalInit
  <2>2. [c \in Conn |-> Phase(c)] = [c \in Conn |-> "idle"]
    BY Zenon, <2>1 DEF Phase
  <2> QED
    BY Zenon, <2>1, <2>2 DEF Abstract!SInit
<1>2. MetalInv /\ [MetalNext]_metalVars => [Abstract!SNext]_(Abstract!svars)
  BY Zenon, StepImplements DEF Abstract!svars, phases
<1> QED
  BY <1>1, <1>2, MetalInvariant, PTL DEF MetalSpec, Abstract!ServiceSteps

-----------------------------------------------------------------------------
(* Image cancellation: the invariant.                                      *)

WaitPlace == {"idle", "submitting", "sleeping", "polling", "fetching", "done", "failed", "dropped"}
WaitRow == [at : WaitPlace, knows : BOOLEAN, left : Int]
JobState == {"none", "sent", "refused", "queued", "running", "done", "error", "cancelled"}
CancelRow == [way : SUBSET CancelRequests, landed : SUBSET CancelRequests, lost : BOOLEAN, slipped : BOOLEAN]

\* There is a cancellation, or has been one.
Cancelled(c) == c.way # {} \/ c.landed # {}

\* A job the host knows of has reached the server, and so has one that is
\* cancelled: it cannot be queued again.  A job that runs although it was to
\* be interrupted slipped between the two requests.
ImageFits(w, j, c) ==
  /\ w.at = "idle" => j = "none"
  /\ w.at = "submitting" => j # "none"
  /\ w.knows => w.at \in {"sleeping", "polling"} /\ j \notin {"none", "sent"}
  /\ Cancelled(c) => w.at \in {"failed", "dropped"} /\ ~w.knows /\ j \notin {"none", "sent"}
  /\ "delete" \in c.landed => j # "queued"
  /\ "interrupt" \in c.landed /\ j = "running" => c.slipped

ImageInv ==
  /\ wait \in [ImageCaller -> WaitRow] /\ job \in [ImageCaller -> JobState]
  /\ cancels \in [ImageCaller -> CancelRow]
  /\ \A i \in ImageCaller : ImageFits(wait[i], job[i], cancels[i])

\* What one caller's step makes of its wait, its job and its cancellation.
Becomes(i, w, j, c) ==
  /\ wait' = [wait EXCEPT ![i] = w] /\ job' = [job EXCEPT ![i] = j]
  /\ cancels' = [cancels EXCEPT ![i] = c]

\* A step on one caller's rows that leaves them fitting keeps the invariant.
LEMMA ImageStepFits ==
  ASSUME ImageInv, NEW i \in ImageCaller, NEW w \in WaitRow, NEW j \in JobState, NEW c \in CancelRow,
         Becomes(i, w, j, c), ImageFits(w, j, c)
  PROVE  ImageInv'
<1>1. /\ wait \in [ImageCaller -> WaitRow] /\ job \in [ImageCaller -> JobState]
      /\ cancels \in [ImageCaller -> CancelRow]
      /\ wait' = [wait EXCEPT ![i] = w] /\ job' = [job EXCEPT ![i] = j]
      /\ cancels' = [cancels EXCEPT ![i] = c]
  BY Zenon DEF ImageInv, Becomes
<1>2. wait' \in [ImageCaller -> WaitRow] /\ wait'[i] = w /\ \A k \in ImageCaller : k # i => wait'[k] = wait[k]
  BY Zenon, <1>1
<1>3. job' \in [ImageCaller -> JobState] /\ job'[i] = j /\ \A k \in ImageCaller : k # i => job'[k] = job[k]
  BY Zenon, <1>1
<1>4. /\ cancels' \in [ImageCaller -> CancelRow] /\ cancels'[i] = c
      /\ \A k \in ImageCaller : k # i => cancels'[k] = cancels[k]
  BY Zenon, <1>1
<1>5. ASSUME NEW k \in ImageCaller PROVE ImageFits(wait'[k], job'[k], cancels'[k])
  <2>1. CASE k = i
    BY Zenon, <1>2, <1>3, <1>4, <2>1
  <2>2. CASE k # i
    <3>1. ImageFits(wait[k], job[k], cancels[k])
      BY Zenon DEF ImageInv
    <3> QED
      BY Zenon, <1>2, <1>3, <1>4, <2>2, <3>1
  <2> QED
    BY Zenon, <2>1, <2>2
<1> QED
  BY Zenon, <1>2, <1>3, <1>4, <1>5 DEF ImageInv

\* A function is itself with a value put where it is.
LEMMA PutBack ==
  ASSUME NEW S, NEW T, NEW f \in [S -> T], NEW i \in S
  PROVE  f = [f EXCEPT ![i] = f[i]]
BY Zenon

\* A wait that goes on, or ends with nothing to cancel.
LEMMA WaitMoves ==
  ASSUME ImageInv, NEW i \in ImageCaller, NEW w \in WaitRow, wait[i].at # "idle", w.at \notin {"idle", "submitting"},
         w.knows => w.at \in {"sleeping", "polling"} /\ job[i] \notin {"none", "sent"},
         wait' = [wait EXCEPT ![i] = w], UNCHANGED <<job, cancels>>,
         wait[i].at \in Active
  PROVE  ImageInv'
<1>1. /\ wait \in [ImageCaller -> WaitRow] /\ job \in [ImageCaller -> JobState]
      /\ cancels \in [ImageCaller -> CancelRow] /\ ImageFits(wait[i], job[i], cancels[i])
  BY Zenon DEF ImageInv
<1>2. PICK j \in JobState : j = job[i]
  BY Zenon, <1>1
<1>3. PICK c \in CancelRow : c = cancels[i]
  BY Zenon, <1>1
<1>4. ~Cancelled(c)
  BY Zenon, <1>1, <1>3 DEF ImageFits, Active
<1>5. ImageFits(w, j, c)
  BY Zenon, <1>2, <1>4 DEF ImageFits, Cancelled
<1>6. Becomes(i, w, j, c)
  BY Zenon, <1>1, <1>2, <1>3, PutBack DEF Becomes
<1> QED
  BY Zenon, <1>5, <1>6, ImageStepFits

\* A wait that ends and leaves its job to a cancellation.
LEMMA WaitCancels ==
  ASSUME ImageInv, NEW i \in ImageCaller, NEW w \in WaitRow, w.at \in {"failed", "dropped"}, ~w.knows,
         job[i] \notin {"none", "sent"}, wait[i].at \in Active,
         wait' = [wait EXCEPT ![i] = w], cancels' = [cancels EXCEPT ![i].way = CancelRequests], job' = job
  PROVE  ImageInv'
<1>1. /\ wait \in [ImageCaller -> WaitRow] /\ job \in [ImageCaller -> JobState]
      /\ cancels \in [ImageCaller -> CancelRow] /\ ImageFits(wait[i], job[i], cancels[i])
  BY Zenon DEF ImageInv
<1>2. PICK j \in JobState : j = job[i]
  BY Zenon, <1>1
<1>3. PICK o \in CancelRow : o = cancels[i]
  BY Zenon, <1>1
<1>4. o.landed = {}
  BY Zenon, <1>1, <1>3 DEF ImageFits, Active, Cancelled
<1>5. PICK c \in CancelRow : c = [o EXCEPT !.way = CancelRequests]
  BY Zenon DEF CancelRow
<1>6. c.landed = {}
  BY Zenon, <1>4, <1>5 DEF CancelRow
<1>7. ImageFits(w, j, c)
  BY Zenon, <1>2, <1>6 DEF ImageFits
<1>8. Becomes(i, w, j, c)
  BY Zenon, <1>1, <1>2, <1>3, <1>5, PutBack DEF Becomes
<1> QED
  BY Zenon, <1>7, <1>8, ImageStepFits

\* The image server's step on a job, or a cancellation's: the wait is left alone.
LEMMA JobMoves ==
  ASSUME ImageInv, NEW i \in ImageCaller, NEW j \in JobState, NEW c \in CancelRow,
         wait' = wait, job' = [job EXCEPT ![i] = j], cancels' = [cancels EXCEPT ![i] = c],
         job[i] \notin {"none", "sent"} => j \notin {"none", "sent"}, job[i] # "none" => j # "none",
         job[i] = "none" => j = "none",
         Cancelled(c) => Cancelled(cancels[i]),
         "delete" \in c.landed => j # "queued",
         "interrupt" \in c.landed /\ j = "running" => c.slipped
  PROVE  ImageInv'
<1>1. /\ wait \in [ImageCaller -> WaitRow] /\ ImageFits(wait[i], job[i], cancels[i])
  BY Zenon DEF ImageInv
<1>2. PICK w \in WaitRow : w = wait[i]
  BY Zenon, <1>1
<1>3. ImageFits(w, job[i], cancels[i])
  BY Zenon, <1>1, <1>2
<1>4. ImageFits(w, j, c)
  BY Zenon, <1>3 DEF ImageFits
<1>5. Becomes(i, w, j, c)
  BY Zenon, <1>1, <1>2, PutBack DEF Becomes
<1> QED
  BY Zenon, <1>4, <1>5, ImageStepFits

-----------------------------------------------------------------------------
(* Image cancellation: the steps.                                          *)

\* The steps of the host: a wait that ends cancels a job it knows of.
LEMMA HostKeeps ==
  ASSUME ImageInv, NEW i \in ImageCaller, StartWait(i) \/ HostStep(i) \/ DropWait(i)
  PROVE  ImageInv'
<1>1. /\ wait \in [ImageCaller -> WaitRow] /\ job \in [ImageCaller -> JobState]
      /\ cancels \in [ImageCaller -> CancelRow] /\ ImageFits(wait[i], job[i], cancels[i])
  BY Zenon DEF ImageInv
<1>2. PICK o \in WaitRow : o = wait[i]
  BY Zenon, <1>1
<1>3. o.left \in Int /\ ImageFits(o, job[i], cancels[i])
  BY Zenon, <1>1, <1>2 DEF WaitRow
<1>4. CASE StartWait(i)
  <2>1. PICK w \in WaitRow : w = [o EXCEPT !.at = "submitting"]
    BY Zenon DEF WaitRow, WaitPlace
  <2>2. w.at = "submitting" /\ w.knows = o.knows /\ o.at = "idle"
    BY Zenon, <1>2, <1>4, <2>1 DEF WaitRow, StartWait
  <2>3. PICK j \in JobState : j = "sent"
    BY Zenon DEF JobState
  <2>4. PICK c \in CancelRow : c = cancels[i]
    BY Zenon, <1>1
  <2>5. ~o.knows /\ ~Cancelled(c)
    BY Zenon, <1>3, <2>2, <2>4 DEF ImageFits
  <2>6. ~w.knows
    BY Zenon, <2>1, <2>5 DEF WaitRow
  <2>7. ImageFits(w, j, c)
    BY Zenon, <2>2, <2>3, <2>5, <2>6 DEF ImageFits, Cancelled
  <2>8. Becomes(i, w, j, c)
    BY Zenon, <1>1, <1>2, <1>4, <2>1, <2>3, <2>4, PutBack DEF Becomes, StartWait
  <2> QED
    BY Zenon, <2>7, <2>8, ImageStepFits
<1>5. ASSUME NEW v \in WaitRow, Sleep(i, v), v.knows, job[i] \notin {"none", "sent"}, wait[i].at \in Active
      PROVE  ImageInv'
  <2>1. CASE v.left <= 1
    <3>1. PICK w \in WaitRow : w = [v EXCEPT !.at = "failed", !.knows = FALSE]
      BY Zenon DEF WaitRow, WaitPlace
    <3>2. w.at = "failed" /\ ~w.knows
      BY Zenon, <3>1 DEF WaitRow
    <3>3. wait' = [wait EXCEPT ![i] = w] /\ cancels' = [cancels EXCEPT ![i].way = CancelRequests] /\ job' = job
      BY Zenon, <1>5, <2>1, <3>1 DEF Sleep
    <3> QED
      BY Zenon, <1>5, <3>2, <3>3, WaitCancels
  <2>2. CASE ~(v.left <= 1)
    <3>1. PICK w \in WaitRow : w = [v EXCEPT !.at = "sleeping"]
      BY Zenon DEF WaitRow, WaitPlace
    <3>2. w.at = "sleeping"
      BY Zenon, <3>1 DEF WaitRow
    <3>3. wait' = [wait EXCEPT ![i] = w] /\ UNCHANGED <<job, cancels>>
      BY Zenon, <1>5, <2>2, <3>1 DEF Sleep
    <3>4. wait[i].at # "idle" /\ w.at \notin {"idle", "submitting"}
      BY Zenon, <1>5, <3>2 DEF Active
    <3> QED
      BY Zenon, <1>5, <3>2, <3>3, <3>4, WaitMoves
  <2> QED
    BY Zenon, <2>1, <2>2
<1>6. ASSUME NEW at \in {"done", "failed", "dropped", "fetching"}, End(i, at), UNCHANGED <<job, cancels>>,
             wait[i].at \in Active
      PROVE  ImageInv'
  <2>1. PICK w \in WaitRow : w = [o EXCEPT !.at = at, !.knows = FALSE]
    BY Zenon DEF WaitRow, WaitPlace
  <2>2. w.at = at /\ ~w.knows
    BY Zenon, <2>1 DEF WaitRow
  <2>3. wait' = [wait EXCEPT ![i] = w]
    BY Zenon, <1>2, <1>6, <2>1 DEF End
  <2>4. wait[i].at # "idle" /\ w.at \notin {"idle", "submitting"}
    BY Zenon, <1>6, <2>2 DEF Active
  <2> QED
    BY Zenon, <1>6, <2>2, <2>3, <2>4, WaitMoves
<1>7. ASSUME NEW at \in {"failed", "dropped"}, End(i, at), DropPending(i), job' = job, wait[i].at \in Active
      PROVE  ImageInv'
  <2>1. CASE wait[i].knows
    <3>1. PICK w \in WaitRow : w = [o EXCEPT !.at = at, !.knows = FALSE]
      BY Zenon DEF WaitRow, WaitPlace
    <3>2. w.at = at /\ ~w.knows
      BY Zenon, <3>1 DEF WaitRow
    <3>3. wait' = [wait EXCEPT ![i] = w]
      BY Zenon, <1>2, <1>7, <3>1 DEF End
    <3>4. cancels' = [cancels EXCEPT ![i].way = CancelRequests]
      BY Zenon, <1>7, <2>1 DEF DropPending
    <3>5. job[i] \notin {"none", "sent"}
      BY Zenon, <1>1, <2>1 DEF ImageFits
    <3> QED
      BY Zenon, <1>7, <3>2, <3>3, <3>4, <3>5, WaitCancels
  <2>2. CASE ~wait[i].knows
    <3>1. UNCHANGED <<job, cancels>>
      BY Zenon, <1>7, <2>2 DEF DropPending
    <3> QED
      BY Zenon, <1>6, <1>7, <3>1
  <2> QED
    BY Zenon, <2>1, <2>2
<1>8. CASE SubmitAnswered(i)
  <2>1. PICK v \in WaitRow : v = [o EXCEPT !.knows = TRUE]
    BY Zenon DEF WaitRow
  <2>2. v.knows
    BY Zenon, <2>1 DEF WaitRow
  <2>3. o.at = "submitting" /\ Sleep(i, v) /\ job[i] # "sent"
    BY Zenon, <1>2, <1>8, <2>1 DEF SubmitAnswered
  <2>4. job[i] \notin {"none", "sent"} /\ wait[i].at \in Active
    BY Zenon, <1>2, <1>3, <2>3 DEF ImageFits, Active
  <2> QED
    BY Zenon, <1>5, <2>2, <2>3, <2>4
<1>9. CASE SubmitFails(i)
  <2>1. End(i, "failed") /\ UNCHANGED <<job, cancels>> /\ wait[i].at \in Active
    BY Zenon, <1>9 DEF SubmitFails, Active
  <2> QED
    BY Zenon, <1>6, <2>1
<1>10. CASE PollJob(i)
  <2>0. PICK m \in WaitRow : m = [o EXCEPT !.at = "polling"]
    BY Zenon DEF WaitRow, WaitPlace
  <2>a. m.at = "polling" /\ m.left \in Int /\ (m.knows => o.knows)
    BY Zenon, <2>0 DEF WaitRow
  <2>1. PICK n \in Int : n = IF m.left = 0 THEN 0 ELSE m.left - 1
    BY <2>a, SMT
  <2>2. PICK w \in WaitRow : w = [m EXCEPT !.left = n]
    BY Zenon DEF WaitRow
  <2>3. w.at = "polling"
    BY Zenon, <2>2, <2>a DEF WaitRow
  <2>4. wait' = [wait EXCEPT ![i] = w] /\ UNCHANGED <<job, cancels>> /\ wait[i].at = "sleeping"
    BY Zenon, <1>2, <1>10, <2>0, <2>1, <2>2 DEF PollJob
  <2>5. w.knows => o.knows
    BY Zenon, <2>2, <2>a DEF WaitRow
  <2>6. w.knows => w.at \in {"sleeping", "polling"} /\ job[i] \notin {"none", "sent"}
    BY Zenon, <1>3, <2>3, <2>5 DEF ImageFits
  <2>7. wait[i].at # "idle" /\ w.at \notin {"idle", "submitting"} /\ wait[i].at \in Active
    BY Zenon, <2>3, <2>4 DEF Active
  <2> QED
    BY Zenon, <2>4, <2>6, <2>7, WaitMoves
<1>11. CASE PollAnswered(i)
  <2>0. wait[i].at = "polling" /\ wait[i].at \in Active
    BY Zenon, <1>11 DEF PollAnswered, Active
  <2>1. CASE job[i] \in {"queued", "running"} /\ Sleep(i, wait[i])
    <3>1. CASE wait[i].knows
      BY Zenon, <1>1, <1>2, <1>5, <2>0, <2>1, <3>1
    <3>2. CASE ~wait[i].knows
      <4>1. CASE o.left <= 1
        <5>1. PICK w \in WaitRow : w = [o EXCEPT !.at = "failed", !.knows = FALSE]
          BY Zenon DEF WaitRow, WaitPlace
        <5>2. w.at = "failed" /\ ~w.knows
          BY Zenon, <5>1 DEF WaitRow
        <5>3. wait' = [wait EXCEPT ![i] = w] /\ cancels' = [cancels EXCEPT ![i].way = CancelRequests] /\ job' = job
          BY Zenon, <1>2, <2>1, <4>1, <5>1 DEF Sleep
        <5>4. job[i] \notin {"none", "sent"}
          BY Zenon, <2>1
        <5> QED
          BY Zenon, <2>0, <5>2, <5>3, <5>4, WaitCancels
      <4>2. CASE ~(o.left <= 1)
        <5>1. PICK w \in WaitRow : w = [o EXCEPT !.at = "sleeping"]
          BY Zenon DEF WaitRow, WaitPlace
        <5>2. w.at = "sleeping" /\ ~w.knows
          BY Zenon, <1>2, <3>2, <5>1 DEF WaitRow
        <5>3. wait' = [wait EXCEPT ![i] = w] /\ UNCHANGED <<job, cancels>>
          BY Zenon, <1>2, <2>1, <4>2, <5>1 DEF Sleep
        <5>4. wait[i].at # "idle" /\ w.at \notin {"idle", "submitting"}
          BY Zenon, <2>0, <5>2
        <5> QED
          BY Zenon, <2>0, <5>2, <5>3, <5>4, WaitMoves
      <4> QED
        BY Zenon, <4>1, <4>2
    <3> QED
      BY Zenon, <3>1, <3>2
  <2>2. CASE wait' = [wait EXCEPT ![i] = [@ EXCEPT !.at = "fetching", !.knows = FALSE]] /\ UNCHANGED <<job, cancels>>
    BY Zenon, <1>6, <2>0, <2>2 DEF End
  <2>3. CASE End(i, "failed") /\ DropPending(i) /\ UNCHANGED job
    BY Zenon, <1>7, <2>0, <2>3
  <2> QED
    BY Zenon, <1>11, <2>1, <2>2, <2>3 DEF PollAnswered
<1>12. CASE PollFails(i)
  <2>1. End(i, "failed") /\ DropPending(i) /\ job' = job /\ wait[i].at \in Active
    BY Zenon, <1>12 DEF PollFails, Active
  <2> QED
    BY Zenon, <1>7, <2>1
<1>13. CASE Fetch(i)
  <2>1. PICK at \in {"done", "failed"} : End(i, at)
    BY Zenon, <1>13 DEF Fetch
  <2>2. UNCHANGED <<job, cancels>> /\ wait[i].at \in Active
    BY Zenon, <1>13 DEF Fetch, Active
  <2> QED
    BY Zenon, <1>6, <2>1, <2>2
<1>14. CASE DropWait(i)
  <2>1. End(i, "dropped") /\ DropPending(i) /\ job' = job /\ wait[i].at \in Active
    BY Zenon, <1>14 DEF DropWait
  <2> QED
    BY Zenon, <1>7, <2>1
<1> QED
  BY Zenon, <1>4, <1>8, <1>9, <1>10, <1>11, <1>12, <1>13, <1>14 DEF HostStep

\* The steps of the image server and of the cancellations.
LEMMA ServerKeeps ==
  ASSUME ImageInv, NEW i \in ImageCaller,
         \/ CancelFails(i) \/ (\E r \in CancelRequests : CancelLands(i, r))
         \/ ServerAccepts(i) \/ ServerStarts(i) \/ ServerEnds(i)
  PROVE  ImageInv'
<1>1. /\ wait \in [ImageCaller -> WaitRow] /\ job \in [ImageCaller -> JobState]
      /\ cancels \in [ImageCaller -> CancelRow] /\ ImageFits(wait[i], job[i], cancels[i])
  BY Zenon DEF ImageInv
<1>2. PICK p \in JobState : p = job[i]
  BY Zenon, <1>1
<1>3. PICK o \in CancelRow : o = cancels[i]
  BY Zenon, <1>1
<1>4. /\ ImageFits(wait[i], p, o) /\ o.way \subseteq CancelRequests /\ o.landed \subseteq CancelRequests
  BY Zenon, <1>1, <1>2, <1>3 DEF CancelRow
<1>a. job = [job EXCEPT ![i] = p] /\ cancels = [cancels EXCEPT ![i] = o]
  BY Zenon, <1>1, <1>2, <1>3, PutBack
<1>b. /\ "delete" \in o.landed => p # "queued"
      /\ "interrupt" \in o.landed /\ p = "running" => o.slipped
      /\ Cancelled(o) => p \notin {"none", "sent"}
  BY Zenon, <1>4 DEF ImageFits
<1>5. CASE CancelFails(i)
  <2>1. PICK c \in CancelRow : c = [o EXCEPT !.way = {}, !.lost = TRUE]
    BY Zenon DEF CancelRow
  <2>2. c.landed = o.landed /\ (o.slipped => c.slipped) /\ (Cancelled(c) => Cancelled(o))
    BY Zenon, <2>1 DEF CancelRow, Cancelled
  <2>3. wait' = wait /\ job' = [job EXCEPT ![i] = p] /\ cancels' = [cancels EXCEPT ![i] = c]
    BY Zenon, <1>3, <1>5, <1>a, <2>1 DEF CancelFails
  <2> QED
    BY Zenon, <1>2, <1>3, <1>b, <2>2, <2>3, JobMoves
<1>6. ASSUME NEW r \in CancelRequests, CancelLands(i, r) PROVE ImageInv'
  <2>0. r \in {"delete", "interrupt"} /\ r \in o.way /\ wait' = wait
    BY Zenon, <1>3, <1>6 DEF CancelLands, CancelRequests
  <2>a. PICK m \in CancelRow : m = [o EXCEPT !.way = o.way \ {r}]
    BY Zenon, <1>4 DEF CancelRow
  <2>b. m.landed = o.landed /\ (o.slipped => m.slipped)
    BY Zenon, <2>a DEF CancelRow
  <2>1. PICK c \in CancelRow : c = [m EXCEPT !.landed = m.landed \union {r}]
    BY Zenon, <1>4, <2>b DEF CancelRow
  <2>2. c.landed = o.landed \union {r} /\ (o.slipped => c.slipped)
    BY Zenon, <2>1, <2>b DEF CancelRow
  <2>3. Cancelled(o) /\ p \notin {"none", "sent"}
    BY Zenon, <1>b, <2>0 DEF Cancelled
  <2>4. PICK j \in JobState : j = IF (r = "delete" /\ p = "queued") \/ (r = "interrupt" /\ p = "running")
                                    THEN "cancelled" ELSE p
    BY Zenon DEF JobState
  <2>5. job' = [job EXCEPT ![i] = j] /\ cancels' = [cancels EXCEPT ![i] = c]
    BY Zenon, <1>2, <1>3, <1>6, <2>1, <2>4, <2>a DEF CancelLands
  <2>6. j = p \/ j = "cancelled"
    BY Zenon, <2>4
  <2>7. r = "delete" => j # "queued"
    BY Zenon, <2>4
  <2>8. r = "interrupt" => j # "running"
    BY Zenon, <2>4
  <2>9. /\ "delete" \in c.landed => j # "queued"
        /\ "interrupt" \in c.landed /\ j = "running" => c.slipped
    BY Zenon, <1>b, <2>2, <2>6, <2>7, <2>8
  <2>10. j \notin {"none", "sent"}
    BY Zenon, <2>3, <2>6
  <2> QED
    BY Zenon, <1>2, <1>3, <2>0, <2>3, <2>5, <2>9, <2>10, JobMoves
<1>7. CASE ServerAccepts(i)
  <2>1. PICK j \in {"queued", "refused"} : job' = [job EXCEPT ![i] = j]
    BY Zenon, <1>7 DEF ServerAccepts
  <2>2. p = "sent" /\ wait' = wait /\ cancels' = [cancels EXCEPT ![i] = o] /\ j \in JobState
    BY Zenon, <1>2, <1>7, <1>a DEF ServerAccepts, JobState
  <2>3. ~Cancelled(o)
    BY Zenon, <1>b, <2>2
  <2>4. "delete" \notin o.landed /\ "interrupt" \notin o.landed
    BY Zenon, <2>3 DEF Cancelled
  <2> QED
    BY Zenon, <1>2, <1>3, <2>1, <2>2, <2>3, <2>4, JobMoves
<1>8. CASE ServerStarts(i)
  <2>2. PICK c \in CancelRow : c = [o EXCEPT !.slipped = (o.landed = {"interrupt"})]
    BY Zenon DEF CancelRow
  <2>3. c.landed = o.landed /\ (Cancelled(c) => Cancelled(o)) /\ (o.landed = {"interrupt"} => c.slipped)
    BY Zenon, <2>2 DEF CancelRow, Cancelled
  <2>4. PICK j \in JobState : j = "running"
    BY Zenon DEF JobState
  <2>5. p = "queued" /\ wait' = wait /\ job' = [job EXCEPT ![i] = j] /\ cancels' = [cancels EXCEPT ![i] = c]
    BY Zenon, <1>2, <1>3, <1>8, <2>2, <2>4 DEF ServerStarts
  <2>6. "interrupt" \in o.landed => o.landed = {"interrupt"}
    BY Zenon, <1>4, <1>b, <2>5 DEF CancelRequests
  <2> QED
    BY Zenon, <1>2, <1>3, <2>3, <2>4, <2>5, <2>6, JobMoves
<1>9. CASE ServerEnds(i)
  <2>1. PICK j \in {"done", "error"} : job' = [job EXCEPT ![i] = j]
    BY Zenon, <1>9 DEF ServerEnds
  <2>2. p = "running" /\ wait' = wait /\ cancels' = [cancels EXCEPT ![i] = o] /\ j \in JobState
    BY Zenon, <1>2, <1>9, <1>a DEF ServerEnds, JobState
  <2> QED
    BY Zenon, <1>2, <1>3, <2>1, <2>2, JobMoves
<1> QED
  BY Zenon, <1>5, <1>6, <1>7, <1>8, <1>9

\* The waits and their cancellations, for any number of callers: a job that was
\* cancelled has reached the server before (PendingImage, comfyui ImageCancel).
THEOREM ImageInvariant == ImageSpec => []ImageInv
<1>1. ImageInit => ImageInv
  <2> SUFFICES ASSUME ImageInit PROVE ImageInv
    BY Zenon
  <2>1. PICK w \in WaitRow : w = [at |-> "idle", knows |-> FALSE, left |-> WaitBudget]
    <3>1. WaitBudget \in Int
      BY ImageAssumption, SMT
    <3> QED
      BY Zenon, <3>1 DEF WaitRow, WaitPlace
  <2>2. PICK c \in CancelRow : c = NoCancel
    BY Zenon DEF NoCancel, CancelRow
  <2>3. PICK j \in JobState : j = "none"
    BY Zenon DEF JobState
  <2>4. w.at = "idle" /\ ~w.knows /\ c.way = {} /\ c.landed = {}
    BY Zenon, <2>1, <2>2 DEF NoCancel
  <2>5. ImageFits(w, j, c)
    BY Zenon, <2>3, <2>4 DEF ImageFits, Cancelled
  <2>6. wait = [i \in ImageCaller |-> w] /\ job = [i \in ImageCaller |-> j] /\ cancels = [i \in ImageCaller |-> c]
    BY Zenon, <2>1, <2>2, <2>3 DEF ImageInit
  <2> QED
    BY Zenon, <2>5, <2>6 DEF ImageInv
<1>2. ImageInv /\ [ImageNext]_imageVars => ImageInv'
  <2> SUFFICES ASSUME ImageInv, [ImageNext]_imageVars PROVE ImageInv'
    BY Zenon
  <2>1. CASE UNCHANGED imageVars
    <3>1. wait' = wait /\ job' = job /\ cancels' = cancels
      BY Zenon, <2>1 DEF imageVars
    <3> QED
      BY Zenon, <3>1 DEF ImageInv
  <2>2. CASE ImageNext
    BY Zenon, <2>2, HostKeeps, ServerKeeps DEF ImageNext
  <2> QED
    BY Zenon, <2>1, <2>2
<1> QED
  BY <1>1, <1>2, PTL DEF ImageSpec

\* An abandoned job does not keep the image server busy once both requests of
\* its cancellation have taken effect, however they, the host's wait and the
\* server's queue are interleaved (PendingImage, comfyui ImageCancel).
THEOREM CancellationReaches == ImageSpec => []CancelReachesTheJob
<1>1. ImageInv => CancelReachesTheJob
  <2> SUFFICES ASSUME ImageInv, NEW i \in ImageCaller, cancels[i].landed = CancelRequests, ~cancels[i].slipped
               PROVE  job[i] \notin {"queued", "running"}
    BY Zenon DEF CancelReachesTheJob
  <2>1. "delete" \in cancels[i].landed /\ "interrupt" \in cancels[i].landed
    BY Zenon DEF CancelRequests
  <2> QED
    BY Zenon, <2>1 DEF ImageInv, ImageFits
<1> QED
  BY ImageInvariant, <1>1, PTL

=============================================================================
